---- MODULE Spec2Model ----
(***************************************************************************)
(* The authentication gateway of moootid/auth-service: the route chain     *)
(* (CORS middleware, AuthMiddleware), the two proxy handlers, the job      *)
(* reads and the object download, as a state machine over request slots.   *)
(***************************************************************************)
EXTENDS Integers, Sequences, FiniteSets, TLC

VARIABLES
    rq,      \* rq[s]: the request being served in slot s (one goroutine per request)
    now,     \* wall clock, in hours
    tjobs,   \* table transcoding_jobs: id -> row
    vjobs,   \* table video_analyses: job_id -> row
    users    \* table users: the rows by id, and the id sequence

vars == <<rq, now, tjobs, vjobs, users>>

(***************************************************************************)
(* Bounds of the model                                                     *)
(***************************************************************************)
MaxConc == 2        \* request slots
MaxHeaderLen == 3   \* atoms in an Authorization header value
MaxTime == 36       \* the clock stops here
TickHours == 12     \* one clock step
MaxMembers == 2     \* members of a JSON object body
MaxBody == 3        \* bytes of a backend response body
CopyBuf == 2        \* bytes moved by one round of io.Copy
MaxUsers == 3       \* ids the users table hands out
MaxLocator == 4     \* atoms in a stored output locator
MaxStamp == 2       \* distinct creation times of job rows

Slots == 1..MaxConc
SeqSlots == {1}

(***************************************************************************)
(* Tokens (github.com/golang-jwt/jwt/v5, HS256)                            *)
(***************************************************************************)
NoClaim == [t |-> "nil"]
NumClaim(n) == [t |-> "num", v |-> n]
StrClaim(x) == [t |-> "str", v |-> x]

TokenTTL == 24

\* a token signed with a key other than the one AuthMiddleware verifies with
generateJWTOtherSecret(userID, email, at) ==
    [email |-> StrClaim(email), form |-> "jwt", sig |-> "bad",
     exp |-> NumClaim(at + TokenTTL), user_id |-> NumClaim(userID)]

\* generateJWT(userID, email) at time `at`; iat is written but never validated
generateJWT(userID, email, at) ==
    [email |-> StrClaim(email), form |-> "jwt", sig |-> "ok",
     exp |-> NumClaim(at + TokenTTL), user_id |-> NumClaim(userID)]

GarbageToken ==
    [email |-> NoClaim, form |-> "garbage", sig |-> "bad",
     exp |-> NoClaim, user_id |-> NoClaim]

\* jwt.Parse(tokenString, keyFunc): segments and encoding, then the HMAC
\* signature, then the registered claims (exp only when present: now < exp)
JwtParseLax(tok, at) ==
    IF tok.form # "jwt" THEN "malformed"
    ELSE IF tok.sig # "ok" THEN "signature"
    ELSE "valid"

JwtParse(tok, at) ==
    IF tok.form # "jwt" THEN "malformed"
    ELSE IF tok.sig # "ok" THEN "signature"
    ELSE IF tok.exp.t = "num" /\ ~(at < tok.exp.v) THEN "expired"
    ELSE "valid"

(***************************************************************************)
(* Header values.  An Authorization value is a sequence of atoms: a single *)
(* space, a word, or a token.                                              *)
(***************************************************************************)
Sp == [k |-> "sp"]
Word(x) == [k |-> "word", w |-> x]
Tok(tk) == [tok |-> tk, k |-> "tok"]

\* strings.Fields(s): runs of spaces separate, and no field is empty
RECURSIVE SplitRuns(_)
SplitRuns(s) ==
    IF s = <<>> THEN << <<>> >>
    ELSE LET rest == SplitRuns(Tail(s)) IN
         IF Head(s) = Sp THEN << <<>> >> \o rest
         ELSE << <<Head(s)>> \o Head(rest) >> \o Tail(rest)
StringsFields(s) == SelectSeq(SplitRuns(s), LAMBDA f : f # <<>>)

\* strings.Split(s, " ")
RECURSIVE StringsSplit(_)
StringsSplit(s) ==
    IF s = <<>> THEN << <<>> >>
    ELSE LET rest == StringsSplit(Tail(s)) IN
         IF Head(s) = Sp THEN << <<>> >> \o rest
         ELSE << <<Head(s)>> \o Head(rest) >> \o Tail(rest)

\* the token string handed to jwt.Parse: only a lone token atom is a JWT
TokenOf(field) ==
    IF Len(field) = 1 /\ field[1].k = "tok" THEN field[1].tok ELSE GarbageToken

\* http.Header: name -> sequence of values; a value is a text, a decimal number
\* (fmt.Sprintf("%d", n)) or, for Authorization, a sequence of atoms
Text(x) == [s |-> x]
Itoa(n) == [dec |-> n]
NoHeaders == [n \in {} |-> <<>>]
HeaderGet(h, name, empty) ==
    IF name \in DOMAIN h /\ Len(h[name]) > 0 THEN h[name][1] ELSE empty
HeaderSet(h, name, value) ==
    [n \in DOMAIN h \cup {name} |-> IF n = name THEN <<value>> ELSE h[n]]
HeaderAdd(h, name, value) ==
    [n \in DOMAIN h \cup {name} |->
        IF n = name THEN (IF name \in DOMAIN h THEN h[name] ELSE <<>>) \o <<value>>
        ELSE h[n]]

(***************************************************************************)
(* The response writer                                                     *)
(***************************************************************************)
NoPayload == [t |-> "none"]
NewWriter == [status |-> 0, hdr |-> NoHeaders, text |-> "", body |-> <<>>,
              payload |-> NoPayload]

\* http.Error(w, msg, code)
HttpError(w, msg, code) ==
    [w EXCEPT !.status = code, !.text = msg,
              !.hdr = HeaderSet(HeaderSet(w.hdr, "Content-Type", Text("text/plain; charset=utf-8")),
                                "X-Content-Type-Options", Text("nosniff"))]

StatusOK == 200
StatusBadRequest == 400
StatusUnauthorized == 401
StatusNotFound == 404
StatusInternalServerError == 500
StatusBadGateway == 502

\* corsMiddleware: three headers set before the route's handler runs
CorsHeaders ==
    HeaderSet(HeaderSet(HeaderSet(NoHeaders,
        "Access-Control-Allow-Origin", Text("*")),
        "Access-Control-Allow-Methods", Text("GET, POST, PUT, DELETE, OPTIONS")),
        "Access-Control-Allow-Headers", Text("Content-Type, Authorization"))

(***************************************************************************)
(* Requests                                                                *)
(***************************************************************************)
NoCtx == [email |-> NoClaim, user_id |-> NoClaim]
NoOut == [t |-> "none"]
NoResp == [t |-> "none"]
NoBody == [kind |-> "empty"]
NoJob == [found |-> FALSE]

IdleReq ==
    [w |-> NewWriter, body |-> NoBody, pc |-> "idle", handler |-> "none",
     hdrs |-> NoHeaders, id |-> "", ctx |-> NoCtx, entered |-> FALSE,
     verified |-> FALSE, authError |-> "none", authAt |-> 0,
     job |-> NoJob, out |-> NoOut, dispatches |-> 0, queries |-> 0,
     fetches |-> 0, resp |-> NoResp, copied |-> 0, copyFailed |-> FALSE,
     panicked |-> FALSE, method |-> "", path |-> <<>>,
     guarded |-> FALSE]

\* the handlers behind AuthMiddleware
ProxyHandlers == {"AnalyzeVideoProxy", "TranscodeVideoProxy"}
SingleReads == {"GetVideoAnalysesInfo", "GetVideoTranscodeInfo", "DownloadVideoFromS3"}
CollectionReads == {"GetVideoAnalyses", "GetVideoTranscodes"}

Done(r, w) == [r EXCEPT !.pc = "done", !.w = w]

\* a request matched by the router: corsMiddleware has run, AuthMiddleware is next.
\* Only the proxies read the body and only the single reads read the {id}.
Arrive(s, handlers, headers, bodies, ids) ==
    /\ rq[s].pc = "idle"
    /\ \E h \in handlers, hd \in headers :
       \E b \in (IF h \in ProxyHandlers THEN bodies ELSE {NoBody}),
          i \in (IF h \in SingleReads THEN ids ELSE {""}) :
          rq' = [rq EXCEPT ![s] =
                    [IdleReq EXCEPT !.pc = "auth", !.handler = h, !.hdrs = hd,
                                    !.body = b, !.id = i, !.guarded = TRUE,
                                    !.w = [NewWriter EXCEPT !.hdr = CorsHeaders]]]
    /\ UNCHANGED <<now, tjobs, vjobs, users>>

\* the identity kept in one field of the process instead of the request's context
AuthMiddlewareShared(s) ==
    /\ rq[s].pc = "auth"
    /\ LET r == [rq[s] EXCEPT !.authAt = now]
           authHeader == HeaderGet(r.hdrs, "Authorization", <<>>)
           bearerToken == StringsSplit(authHeader)
           tok == TokenOf(bearerToken[2])
       IN  rq' = IF \/ authHeader = <<>>
                    \/ Len(bearerToken) # 2
                    \/ bearerToken[1] # <<Word("Bearer")>>
                    \/ JwtParse(tok, now) # "valid"
                 THEN [rq EXCEPT ![s] =
                         Done(r, HttpError(r.w, "Invalid token", StatusUnauthorized))]
                 ELSE [t \in DOMAIN rq |->
                         IF t = s
                         THEN [r EXCEPT !.pc = "handler", !.entered = TRUE, !.verified = TRUE,
                                        !.ctx = [email |-> tok.email, user_id |-> tok.user_id]]
                         ELSE IF rq[t].entered
                         THEN [rq[t] EXCEPT !.ctx = [email |-> tok.email,
                                                     user_id |-> tok.user_id]]
                         ELSE rq[t]]
    /\ UNCHANGED <<now, tjobs, vjobs, users>>

\* AuthMiddleware(next): the four rejections, else the claims go into the context
AuthMiddleware(s) ==
    /\ rq[s].pc = "auth"
    /\ LET r0 == rq[s]
           r == [r0 EXCEPT !.authAt = now]
           authHeader == HeaderGet(r.hdrs, "Authorization", <<>>)
           bearerToken == StringsSplit(authHeader)
           tok == TokenOf(bearerToken[2])
       IN  rq' = [rq EXCEPT ![s] =
             IF authHeader = <<>>
             THEN Done([r0 EXCEPT !.authError = "MissingCredential"],
                       HttpError(r.w, "Authorization header required", StatusUnauthorized))
             ELSE IF Len(bearerToken) # 2 \/ bearerToken[1] # <<Word("Bearer")>>
             THEN Done([r EXCEPT !.authError = "MalformedCredential"],
                       HttpError(r.w, "Invalid authorization format", StatusUnauthorized))
             ELSE IF JwtParse(tok, now) # "valid"
             THEN Done([r EXCEPT !.authError = "InvalidCredential", !.verified = TRUE],
                       HttpError(r.w, "Invalid token", StatusUnauthorized))
             ELSE [r EXCEPT !.pc = "handler", !.entered = TRUE, !.verified = TRUE,
                            !.ctx = [email |-> tok.email, user_id |-> tok.user_id]]]
    /\ UNCHANGED <<now, tjobs, vjobs, users>>

\* the response has been sent; the slot serves the next request
Finish(s) ==
    /\ rq[s].pc = "done"
    /\ rq' = [rq EXCEPT ![s] = IdleReq]
    /\ UNCHANGED <<now, tjobs, vjobs, users>>

Tick ==
    /\ now + TickHours <= MaxTime
    /\ now' = now + TickHours
    /\ UNCHANGED <<rq, tjobs, vjobs, users>>

(***************************************************************************)
(* JSON (encoding/json).  A number is hi * 2^26 + lo, so that values past   *)
(* 2^53 can be written; the numbers of the model stay below 2^54.          *)
(***************************************************************************)
Base == 2^26
JNum(hi, lo) == [t |-> "num", hi |-> hi, lo |-> lo]
JStr(x) == [t |-> "str", s |-> x]
JInt(n) == JNum(0, n)

\* strconv.ParseFloat(literal, 64) of an integer literal, back as the integer
\* that json.Marshal prints for the float64: exact below 2^53, and rounded to
\* the nearest even mantissa (a multiple of 2) from 2^53 up
Float64(v) ==
    IF v.t # "num" \/ v.hi < 2^27 \/ v.lo % 2 = 0 THEN v
    ELSE IF v.lo % 4 = 1 THEN JNum(v.hi, v.lo - 1)
    ELSE IF v.lo + 1 = Base THEN JNum(v.hi + 1, 0)
    ELSE JNum(v.hi, v.lo + 1)

\* the byte order of the object keys of the model (json.Marshal sorts map keys)
KeyOrder == <<"created_by", "source_path", "user">>
Keys == {KeyOrder[i] : i \in 1..Len(KeyOrder)}
KeyRank(k) == CHOOSE i \in 1..Len(KeyOrder) : KeyOrder[i] = k

\* a Go map[string]interface{}: nil, or a function from keys to values
NilMap == [nil |-> TRUE, m |-> <<>>]
MakeMap == [nil |-> FALSE, m |-> [k \in {} |-> JInt(0)]]

RECURSIVE FoldMembers(_, _)
FoldMembers(members, m) ==
    IF members = <<>> THEN m
    ELSE LET e == Head(members) IN
         FoldMembers(Tail(members),
                     [k \in DOMAIN m \cup {e.k} |->
                         IF k = e.k THEN Float64(e.v) ELSE m[k]])

\* json.Unmarshal(bodyBytes, &originalBody), originalBody a nil map: null is
\* accepted and leaves the map nil; an object fills a fresh map, a later
\* duplicate key replacing an earlier one; anything else is an error
JsonUnmarshal(body) ==
    IF body.kind = "object"
    THEN [err |-> FALSE, val |-> [nil |-> FALSE, m |-> FoldMembers(body.members, MakeMap.m)]]
    ELSE IF body.kind = "null" THEN [err |-> FALSE, val |-> NilMap]
    ELSE [err |-> TRUE, val |-> NilMap]

RECURSIVE SortKeys(_)
SortKeys(S) ==
    IF S = {} THEN <<>>
    ELSE LET k == CHOOSE x \in S : \A y \in S : KeyRank(x) <= KeyRank(y)
         IN  <<k>> \o SortKeys(S \ {k})

\* json.Marshal(map): the members in key order
JsonMarshal(m) ==
    LET ks == SortKeys(DOMAIN m) IN
    [kind |-> "object", members |-> [i \in 1..Len(ks) |-> [v |-> m[ks[i]], k |-> ks[i]]]]

Div10(v) ==
    LET t == (v.hi % 10) * Base + v.lo IN JNum(v.hi \div 10, t \div 10)

RECURSIVE Digits(_)
Digits(v) == IF v.hi = 0 /\ v.lo < 10 THEN 1 ELSE 1 + Digits(Div10(v))

ValueLen(v) == IF v.t = "num" THEN Digits(v) ELSE Len(v.s) + 2

RECURSIVE MembersLen(_)
MembersLen(members) ==
    IF members = <<>> THEN 0
    ELSE Len(Head(members).k) + 3 + ValueLen(Head(members).v)
         + (IF Len(members) > 1 THEN 1 ELSE 0) + MembersLen(Tail(members))

\* len(bytes) of a serialized object
ByteLen(body) == 2 + MembersLen(body.members)

(***************************************************************************)
(* The proxy handlers: AnalyzeVideoProxy and TranscodeVideoProxy           *)
(***************************************************************************)
\* the key the handler writes the subject under
InjectKey(h) == IF h = "AnalyzeVideoProxy" THEN "user" ELSE "created_by"

BackendURL(h) ==
    IF h = "AnalyzeVideoProxy" THEN "ANALYZE_VIDEO_URL/analyze-video"
    ELSE "TRANSCODE_VIDEO_URL/transcode"

\* userID, ok := r.Context().Value("user_id").(float64)
UserContextOk(ctx) == ctx.user_id.t = "num"
\* uint(userID)
Uint(claim) == claim.v

\* originalBody[key] = uint(userID)
InjectKeepCaller(m, key, uid) ==
    [k \in DOMAIN m \cup {key} |-> IF k \in DOMAIN m THEN m[k] ELSE JInt(uid)]

Inject(m, key, uid) ==
    [k \in DOMAIN m \cup {key} |-> IF k = key THEN JInt(uid) ELSE m[k]]

\* the header loop, then the two Set calls
RECURSIVE AddAll(_, _, _)
AddAll(h, name, values) ==
    IF values = <<>> THEN h
    ELSE AddAll(HeaderAdd(h, name, Head(values)), name, Tail(values))

RECURSIVE CopyHeaders(_, _, _)
CopyHeaders(dst, src, names) ==
    IF names = {} THEN dst
    ELSE LET n == CHOOSE x \in names : TRUE
         IN  CopyHeaders(AddAll(dst, n, src[n]), src, names \ {n})

OutboundHeadersKeepAuth(hdrs, bodyLen) ==
    HeaderSet(HeaderSet(CopyHeaders(NoHeaders, hdrs, DOMAIN hdrs \ {"Content-Length"}),
                        "Content-Type", Text("application/json")),
              "Content-Length", Itoa(bodyLen))

OutboundHeaders(hdrs, bodyLen) ==
    HeaderSet(HeaderSet(CopyHeaders(NoHeaders, hdrs,
                                    DOMAIN hdrs \ {"Authorization", "Content-Length"}),
                        "Content-Type", Text("application/json")),
              "Content-Length", Itoa(bodyLen))

\* the handler up to client.Do: context, body, injection, the outbound request
ProxyPrepare(s) ==
    /\ rq[s].pc = "handler"
    /\ rq[s].handler \in ProxyHandlers
    /\ LET r == rq[s]
           parsed == JsonUnmarshal(r.body)
           originalBody == IF r.body.kind = "empty" THEN MakeMap ELSE parsed.val
           modifiedBody == JsonMarshal(Inject(originalBody.m, InjectKey(r.handler),
                                              Uint(r.ctx.user_id)))
       IN  rq' = [rq EXCEPT ![s] =
             IF ~UserContextOk(r.ctx)
             THEN Done(r, HttpError(r.w, "Invalid user context", StatusInternalServerError))
             ELSE IF r.body.kind = "readerr"
             THEN Done(r, HttpError(r.w, "Error reading request body", StatusBadRequest))
             ELSE IF r.body.kind # "empty" /\ parsed.err
             THEN Done(r, HttpError(r.w, "Invalid JSON in request body", StatusBadRequest))
             ELSE IF originalBody.nil
             THEN [r EXCEPT !.pc = "done", !.panicked = TRUE]
             ELSE [r EXCEPT !.pc = "dispatch",
                            !.out = [t |-> "request",
                                     hdr |-> OutboundHeaders(r.hdrs, ByteLen(modifiedBody)),
                                     body |-> modifiedBody, method |-> "POST",
                                     url |-> BackendURL(r.handler)]]]
    /\ UNCHANGED <<now, tjobs, vjobs, users>>

\* client.Do(req): a connection failure answers 502; a response has its headers
\* added to the writer's and its status written
ProxyDispatchRetry(s, responses) ==
    /\ rq[s].pc = "dispatch"
    /\ rq[s].handler \in ProxyHandlers
    /\ LET r == [rq[s] EXCEPT !.dispatches = @ + 1] IN
       \/ /\ r.dispatches <= 2
          /\ rq' = [rq EXCEPT ![s] = r]
       \/ \E resp \in responses :
            rq' = [rq EXCEPT ![s] =
                     [r EXCEPT !.pc = "copy", !.resp = resp,
                               !.w = [r.w EXCEPT
                                        !.hdr = CopyHeaders(r.w.hdr, resp.hdr, DOMAIN resp.hdr),
                                        !.status = resp.status]]]
    /\ UNCHANGED <<now, tjobs, vjobs, users>>

ProxyDispatch(s, responses) ==
    /\ rq[s].pc = "dispatch"
    /\ rq[s].handler \in ProxyHandlers
    /\ LET r == [rq[s] EXCEPT !.dispatches = @ + 1] IN
       \/ rq' = [rq EXCEPT ![s] =
                   Done(r, HttpError(r.w, "Error connecting to video service",
                                     StatusBadGateway))]
       \/ \E resp \in responses :
            rq' = [rq EXCEPT ![s] =
                     [r EXCEPT !.pc = "copy", !.resp = resp,
                               !.w = [r.w EXCEPT
                                        !.hdr = CopyHeaders(r.w.hdr, resp.hdr, DOMAIN resp.hdr),
                                        !.status = resp.status]]]
    /\ UNCHANGED <<now, tjobs, vjobs, users>>

Min(a, b) == IF a < b THEN a ELSE b

\* a single Read and Write in place of io.Copy
ProxyCopyOnce(s) ==
    /\ rq[s].pc = "copy"
    /\ rq[s].handler \in ProxyHandlers
    /\ LET r == rq[s]
           n == Min(CopyBuf, Len(r.resp.body) - r.copied)
       IN  rq' = [rq EXCEPT ![s] =
                    [r EXCEPT !.pc = "done", !.copied = @ + n,
                              !.w.body = @ \o SubSeq(r.resp.body, r.copied + 1,
                                                     r.copied + n)]]
    /\ UNCHANGED <<now, tjobs, vjobs, users>>

\* a failed copy answered with an error response
ProxyCopyReportsFailure(s) ==
    /\ rq[s].pc = "copy"
    /\ rq[s].handler \in ProxyHandlers
    /\ LET r == rq[s]
           n == Min(CopyBuf, Len(r.resp.body) - r.copied)
       IN  \/ /\ n > 0
              /\ rq' = [rq EXCEPT ![s] =
                          [r EXCEPT !.copied = @ + n,
                                    !.w.body = @ \o SubSeq(r.resp.body, r.copied + 1,
                                                           r.copied + n)]]
           \/ /\ n > 0
              /\ rq' = [rq EXCEPT ![s] =
                          Done([r EXCEPT !.copyFailed = TRUE],
                               HttpError(r.w, "Error copying response body",
                                         StatusInternalServerError))]
           \/ /\ n = 0
              /\ rq' = [rq EXCEPT ![s] = [r EXCEPT !.pc = "done"]]
    /\ UNCHANGED <<now, tjobs, vjobs, users>>

\* io.Copy(w, resp.Body): one round moves at most CopyBuf bytes; a failed read or
\* write is logged and the handler returns; at end of stream the handler returns
ProxyCopy(s) ==
    /\ rq[s].pc = "copy"
    /\ rq[s].handler \in ProxyHandlers
    /\ LET r == rq[s]
           n == Min(CopyBuf, Len(r.resp.body) - r.copied)
       IN  \/ /\ n > 0
              /\ rq' = [rq EXCEPT ![s] =
                          [r EXCEPT !.copied = @ + n,
                                    !.w.body = @ \o SubSeq(r.resp.body, r.copied + 1,
                                                           r.copied + n)]]
           \/ /\ n > 0
              /\ rq' = [rq EXCEPT ![s] = [r EXCEPT !.pc = "done", !.copyFailed = TRUE]]
           \/ /\ n = 0
              /\ rq' = [rq EXCEPT ![s] = [r EXCEPT !.pc = "done"]]
    /\ UNCHANGED <<now, tjobs, vjobs, users>>

(***************************************************************************)
(* The job tables and the reads scoped by owner                            *)
(***************************************************************************)
NullOwner == [null |-> TRUE]
Owner(n) == [v |-> n, null |-> FALSE]
NullURL == [null |-> TRUE]
URL(x) == [v |-> x, null |-> FALSE]

\* path parameters; uuid.Parse accepts the first three
WellFormedIDs == {"uuid-a", "uuid-b", "uuid-c"}
PathIDs == WellFormedIDs \cup {"not-a-uuid"}
\* no format check on the path parameter
UuidParseAny(id) == TRUE

\* uuid.Parse(id) returns no error
UuidParseOk(id) == id \in WellFormedIDs

TableOf(h) == IF h \in {"GetVideoAnalyses", "GetVideoAnalysesInfo"} THEN vjobs ELSE tjobs
CreatedAt(h, row) ==
    IF h \in {"GetVideoAnalyses", "GetVideoAnalysesInfo"} THEN row.created_at
    ELSE row.inserted_at

\* Where("<key> = ? AND created_by = ?", id, uint(userID)).First(&row)
FirstByIdOnly(table, id, uid) ==
    IF id \in DOMAIN table
    THEN [found |-> TRUE, id |-> id, row |-> table[id]]
    ELSE [found |-> FALSE]

FirstByIdAndOwner(table, id, uid) ==
    IF id \in DOMAIN table /\ table[id].created_by = Owner(uid)
    THEN [found |-> TRUE, id |-> id, row |-> table[id]]
    ELSE [found |-> FALSE]

\* the caller's rows, oldest first
FindByOwnerAscending(h, table, uid) ==
    LET mine == {i \in DOMAIN table : table[i].created_by = Owner(uid)}
        n == Cardinality(mine)
    IN  {q \in [1..n -> mine] :
            /\ \A i, j \in 1..n : i # j => q[i] # q[j]
            /\ \A i, j \in 1..n :
                  i < j => CreatedAt(h, table[q[i]]) <= CreatedAt(h, table[q[j]])}

\* Where("created_by = ?", uint(userID)).Order("<created> DESC").Find(&rows):
\* every ordering of the caller's rows that is non-increasing in creation time
FindByOwner(h, table, uid) ==
    LET mine == {i \in DOMAIN table : table[i].created_by = Owner(uid)}
        n == Cardinality(mine)
    IN  {q \in [1..n -> mine] :
            /\ \A i, j \in 1..n : i # j => q[i] # q[j]
            /\ \A i, j \in 1..n :
                  i < j => CreatedAt(h, table[q[i]]) >= CreatedAt(h, table[q[j]])}

NotFoundText(h) ==
    IF h = "GetVideoAnalysesInfo" THEN "Video analysis not found or access denied"
    ELSE "Video not found or access denied"
QueryErrorText(h) ==
    IF h = "GetVideoAnalysesInfo" THEN "Error retrieving video analysis information"
    ELSE IF h = "GetVideoAnalyses" THEN "Error retrieving video analyses"
    ELSE IF h = "GetVideoTranscodes" THEN "Error retrieving transcoding jobs"
    ELSE "Error retrieving video information"
BadIdText(h) ==
    IF h = "GetVideoAnalysesInfo" THEN "Invalid job ID format" ELSE "Invalid video ID format"

\* json.NewEncoder(w).Encode(v) after Content-Type is set
WriteJSON(w, payload) ==
    [w EXCEPT !.status = StatusOK, !.payload = payload,
              !.hdr = HeaderSet(w.hdr, "Content-Type", Text("application/json"))]

\* GetVideoAnalyses, GetVideoTranscodes
CollectionRead(s) ==
    /\ rq[s].pc = "handler"
    /\ rq[s].handler \in CollectionReads
    /\ LET r == rq[s]
           q == [r EXCEPT !.queries = @ + 1]
           uid == Uint(r.ctx.user_id)
       IN  \/ /\ ~UserContextOk(r.ctx)
              /\ rq' = [rq EXCEPT ![s] =
                          Done(r, HttpError(r.w, "Invalid user context",
                                            StatusInternalServerError))]
           \/ /\ UserContextOk(r.ctx)
              /\ rq' = [rq EXCEPT ![s] =
                          Done(q, HttpError(r.w, QueryErrorText(r.handler),
                                            StatusInternalServerError))]
           \/ /\ UserContextOk(r.ctx)
              /\ \E rows \in FindByOwner(r.handler, TableOf(r.handler), uid) :
                    rq' = [rq EXCEPT ![s] =
                             Done(q, WriteJSON(r.w,
                                 [t |-> "list",
                                  rows |-> [i \in DOMAIN rows |->
                                              [id |-> rows[i],
                                               row |-> TableOf(r.handler)[rows[i]]]]]))]
    /\ UNCHANGED <<now, tjobs, vjobs, users>>

\* the common head of the three single-record handlers: context, id format, query.
\* A request that gets past it carries the row found.
SingleLookup(r) ==
    LET uid == Uint(r.ctx.user_id)
        q == [r EXCEPT !.queries = @ + 1]
        got == FirstByIdAndOwner(TableOf(r.handler), r.id, uid)
    IN  IF ~UserContextOk(r.ctx)
        THEN {[r |-> Done(r, HttpError(r.w, "Invalid user context",
                                       StatusInternalServerError)),
               ok |-> FALSE]}
        ELSE IF ~UuidParseOk(r.id)
        THEN {[r |-> Done(r, HttpError(r.w, BadIdText(r.handler), StatusBadRequest)),
               ok |-> FALSE]}
        ELSE {[r |-> Done(q, HttpError(r.w, QueryErrorText(r.handler),
                                       StatusInternalServerError)),
               ok |-> FALSE]}
             \cup
             (IF ~got.found
              THEN {[r |-> Done(q, HttpError(r.w, NotFoundText(r.handler),
                                             StatusNotFound)),
                     ok |-> FALSE]}
              ELSE {[r |-> [q EXCEPT !.job = got], got |-> got, ok |-> TRUE]})

\* the lookup made with FirstOrCreate: a missing row is inserted for the caller
SingleReadOrCreate(s) ==
    /\ rq[s].pc = "handler"
    /\ rq[s].handler \in {"GetVideoAnalysesInfo", "GetVideoTranscodeInfo"}
    /\ \E res \in SingleLookup(rq[s]) :
          /\ rq' = [rq EXCEPT ![s] =
                      IF res.ok
                      THEN Done(res.r, WriteJSON(res.r.w,
                                  [t |-> "row", id |-> res.got.id, row |-> res.got.row]))
                      ELSE res.r]
          /\ IF ~res.ok /\ res.r.w.status = StatusNotFound /\ rq[s].id \notin DOMAIN tjobs
             THEN tjobs' = [i \in DOMAIN tjobs \cup {rq[s].id} |->
                              IF i = rq[s].id
                              THEN [status |-> "pending", inserted_at |-> 0,
                                    created_by |-> Owner(Uint(rq[s].ctx.user_id)),
                                    updated_at |-> 0,
                                    output_url |-> NullURL]
                              ELSE tjobs[i]]
             ELSE tjobs' = tjobs
    /\ UNCHANGED <<now, vjobs, users>>

\* GetVideoAnalysesInfo, GetVideoTranscodeInfo
SingleRead(s) ==
    /\ rq[s].pc = "handler"
    /\ rq[s].handler \in {"GetVideoAnalysesInfo", "GetVideoTranscodeInfo"}
    /\ \E res \in SingleLookup(rq[s]) :
          rq' = [rq EXCEPT ![s] =
                   IF res.ok
                   THEN Done(res.r, WriteJSON(res.r.w,
                               [t |-> "row", id |-> res.got.id, row |-> res.got.row]))
                   ELSE res.r]
    /\ UNCHANGED <<now, tjobs, vjobs, users>>

(***************************************************************************)
(* The object download.  A locator is a sequence of atoms: the scheme      *)
(* "s3://", a slash, a name (no dot, no slash) or an extension ("." and a  *)
(* possibly empty run of letters).                                         *)
(***************************************************************************)
Scheme == [k |-> "scheme"]
Slash == [k |-> "slash"]
Name(x) == [k |-> "name", s |-> x]
Ext(x) == [k |-> "ext", s |-> x]

\* the characters of a scheme atom that is not a prefix: "s3:", "/", "/"
RECURSIVE Spell(_)
Spell(x) ==
    IF x = <<>> THEN <<>>
    ELSE (IF Head(x) = Scheme THEN <<Name("s3:"), Slash, Slash>> ELSE <<Head(x)>>)
         \o Spell(Tail(x))

\* strings.TrimPrefix(s3URL, "s3://")
TrimScheme(x) == IF x # <<>> /\ Head(x) = Scheme THEN Tail(x) ELSE x

\* the length check on the parts left out
parseS3URLNoCheck(s3URL) ==
    LET x == Spell(TrimScheme(s3URL))
        cuts == {i \in 1..Len(x) : x[i] = Slash}
    IN  IF cuts = {} THEN [err |-> FALSE, key |-> <<>>, bucket |-> x]
        ELSE LET i == CHOOSE c \in cuts : \A d \in cuts : c <= d
             IN  [err |-> FALSE, key |-> SubSeq(x, i + 1, Len(x)),
                  bucket |-> SubSeq(x, 1, i - 1)]

\* the split made at the last separator
parseS3URLLastSlash(s3URL) ==
    LET x == Spell(TrimScheme(s3URL))
        cuts == {i \in 1..Len(x) : x[i] = Slash}
    IN  IF cuts = {} THEN [err |-> TRUE, key |-> <<>>, bucket |-> <<>>]
        ELSE LET i == CHOOSE c \in cuts : \A d \in cuts : c >= d
             IN  [err |-> FALSE, key |-> SubSeq(x, i + 1, Len(x)),
                  bucket |-> SubSeq(x, 1, i - 1)]

\* parseS3URL: strings.SplitN(s, "/", 2), fewer than two parts is an error
parseS3URL(s3URL) ==
    LET x == Spell(TrimScheme(s3URL))
        cuts == {i \in 1..Len(x) : x[i] = Slash}
    IN  IF cuts = {} THEN [err |-> TRUE, key |-> <<>>, bucket |-> <<>>]
        ELSE LET i == CHOOSE c \in cuts : \A d \in cuts : c <= d
             IN  [err |-> FALSE, key |-> SubSeq(x, i + 1, Len(x)),
                  bucket |-> SubSeq(x, 1, i - 1)]

\* filepath.Base(key)
RECURSIVE StripSlashes(_)
StripSlashes(x) ==
    IF x # <<>> /\ x[Len(x)] = Slash THEN StripSlashes(SubSeq(x, 1, Len(x) - 1)) ELSE x

FilepathBase(key) ==
    IF key = <<>> THEN <<Ext("")>>
    ELSE LET x == StripSlashes(key)
             cuts == {i \in 1..Len(x) : x[i] = Slash}
         IN  IF x = <<>> THEN <<Slash>>
             ELSE IF cuts = {} THEN x
             ELSE LET i == CHOOSE c \in cuts : \A d \in cuts : c >= d
                  IN  SubSeq(x, i + 1, Len(x))

\* filepath.Ext(filename): from the last dot of the last element
AfterLastSlash(x) ==
    LET cuts == {i \in 1..Len(x) : x[i] = Slash}
    IN  IF cuts = {} THEN x
        ELSE LET i == CHOOSE c \in cuts : \A d \in cuts : c >= d
             IN  SubSeq(x, i + 1, Len(x))

FilepathExt(filename) ==
    LET last == AfterLastSlash(filename)
        dots == {i \in 1..Len(last) : last[i].k = "ext"}
    IN  IF dots = {} THEN <<>>
        ELSE LET i == CHOOSE c \in dots : \A d \in dots : c >= d
             IN  SubSeq(last, i, Len(last))

\* strings.ToLower on the letters of the model
LowerLetters(x) ==
    IF x = "MP4" THEN "mp4" ELSE IF x = "Mkv" THEN "mkv" ELSE x
StringsToLower(x) ==
    [i \in 1..Len(x) |->
        IF x[i].k \in {"ext", "name"} THEN [x[i] EXCEPT !.s = LowerLetters(@)] ELSE x[i]]

\* getContentType(filename)
getContentType(filename) ==
    LET ext == StringsToLower(FilepathExt(filename)) IN
    IF ext = <<Ext("mp4")>> THEN "video/mp4"
    ELSE IF ext = <<Ext("avi")>> THEN "video/x-msvideo"
    ELSE IF ext = <<Ext("mov")>> THEN "video/quicktime"
    ELSE IF ext = <<Ext("wmv")>> THEN "video/x-ms-wmv"
    ELSE IF ext = <<Ext("flv")>> THEN "video/x-flv"
    ELSE IF ext = <<Ext("webm")>> THEN "video/webm"
    ELSE IF ext = <<Ext("mkv")>> THEN "video/x-matroska"
    ELSE "application/octet-stream"

\* the filename of the download: the key's base, or video_<id>.mp4
DownloadFilename(key, videoID) ==
    LET filename == FilepathBase(key) IN
    IF filename = <<>> \/ filename = <<Ext("")>>
    THEN <<Name("video_"), Name(videoID), Ext("mp4")>>
    ELSE filename

\* only a nil locator counts as not ready
OutputUnsetNilOnly(url) == url.null

\* transcodingJob.OutputURL == nil || *transcodingJob.OutputURL == ""
OutputUnset(url) == IF url.null THEN TRUE ELSE url.v = <<>>

\* DownloadVideoFromS3 up to svc.GetObject: the lookup, the output locator, the
\* session, the locator's bucket and key
DownloadPrepare(s) ==
    /\ rq[s].pc = "handler"
    /\ rq[s].handler = "DownloadVideoFromS3"
    /\ \E res \in SingleLookup(rq[s]) :
          \/ /\ ~res.ok
             /\ rq' = [rq EXCEPT ![s] = res.r]
          \/ /\ res.ok
             /\ LET r == res.r
                    url == res.got.row.output_url
                    loc == IF url.null THEN parseS3URL(<<>>) ELSE parseS3URL(url.v)
                    unset == OutputUnset(url)
                IN  \/ /\ unset
                       /\ rq' = [rq EXCEPT ![s] =
                                   Done(r, HttpError(r.w, "Video is not ready for download",
                                                     StatusNotFound))]
                    \/ /\ ~unset
                       /\ rq' = [rq EXCEPT ![s] =
                                   Done(r, HttpError(r.w, "Error connecting to storage service",
                                                     StatusInternalServerError))]
                    \/ /\ ~unset
                       /\ rq' = [rq EXCEPT ![s] =
                                   IF loc.err
                                   THEN Done(r, HttpError(r.w, "Invalid video storage location",
                                                          StatusInternalServerError))
                                   ELSE [r EXCEPT !.pc = "fetch",
                                                  !.out = [t |-> "getobject",
                                                           key |-> loc.key,
                                                           bucket |-> loc.bucket]]]
    /\ UNCHANGED <<now, tjobs, vjobs, users>>

NullLength == [null |-> TRUE]
Length(n) == [v |-> n, null |-> FALSE]

\* the download's headers set before the store is asked, kept when it fails
DownloadFetchHeadersFirst(s, objects) ==
    /\ rq[s].pc = "fetch"
    /\ LET r0 == [rq[s] EXCEPT !.fetches = @ + 1]
           filename == DownloadFilename(r0.out.key, r0.id)
           h1 == HeaderSet(r0.w.hdr, "Content-Type", Text(getContentType(filename)))
           h2 == HeaderSet(h1, "Content-Disposition",
                           [filename |-> filename, attachment |-> TRUE])
           r == [r0 EXCEPT !.w.hdr = h2]
       IN
       \/ rq' = [rq EXCEPT ![s] =
                   Done(r, HttpError(r.w, "Error retrieving video file",
                                     StatusInternalServerError))]
       \/ \E obj \in objects :
            LET h3 == IF obj.length.null THEN h2
                      ELSE HeaderSet(h2, "Content-Length", Itoa(obj.length.v))
            IN  rq' = [rq EXCEPT ![s] =
                         [r EXCEPT !.pc = "stream", !.resp = obj, !.w.hdr = h3]]
    /\ UNCHANGED <<now, tjobs, vjobs, users>>

\* svc.GetObject(input): a failure answers 500; an object has the download's
\* headers set from its key and its reported length
DownloadFetch(s, objects) ==
    /\ rq[s].pc = "fetch"
    /\ LET r == [rq[s] EXCEPT !.fetches = @ + 1] IN
       \/ rq' = [rq EXCEPT ![s] =
                   Done(r, HttpError(r.w, "Error retrieving video file",
                                     StatusInternalServerError))]
       \/ \E obj \in objects :
            LET filename == DownloadFilename(r.out.key, r.id)
                h1 == HeaderSet(r.w.hdr, "Content-Type", Text(getContentType(filename)))
                h2 == HeaderSet(h1, "Content-Disposition",
                                [filename |-> filename, attachment |-> TRUE])
                h3 == IF obj.length.null THEN h2
                      ELSE HeaderSet(h2, "Content-Length", Itoa(obj.length.v))
            IN  rq' = [rq EXCEPT ![s] =
                         [r EXCEPT !.pc = "stream", !.resp = obj, !.w.hdr = h3]]
    /\ UNCHANGED <<now, tjobs, vjobs, users>>

\* io.Copy(w, result_s3.Body): the first write commits status 200
DownloadCopy(s) ==
    /\ rq[s].pc = "stream"
    /\ LET r == [rq[s] EXCEPT !.w.status = StatusOK]
           n == Min(CopyBuf, Len(r.resp.body) - r.copied)
       IN  \/ /\ n > 0
              /\ rq' = [rq EXCEPT ![s] =
                          [r EXCEPT !.copied = @ + n,
                                    !.w.body = @ \o SubSeq(r.resp.body, r.copied + 1,
                                                           r.copied + n)]]
           \/ /\ n > 0
              /\ rq' = [rq EXCEPT ![s] = [r EXCEPT !.pc = "done", !.copyFailed = TRUE]]
           \/ /\ n = 0
              /\ rq' = [rq EXCEPT ![s] = [r EXCEPT !.pc = "done"]]
    /\ UNCHANGED <<now, tjobs, vjobs, users>>

(***************************************************************************)
(* The TranscodingJob model: its status values, its hooks, and Create and  *)
(* Save through gorm on the table AutoMigrate builds from the struct tags   *)
(***************************************************************************)
StatusPending == "pending"
StatusProcessing == "processing"
StatusCompleted == "completed"
StatusFailed == "failed"
StatusCancelled == "cancelled"

\* func (s TranscodingJobStatus) IsValid() bool
IsValid(st) ==
    IF st \in {StatusPending, StatusProcessing, StatusCompleted, StatusFailed,
               StatusCancelled}
    THEN TRUE
    ELSE FALSE

\* BeforeCreate: the default status and both timestamps (the row's key stands
\* for the generated ID)
BeforeCreate(tj, at) ==
    [tj EXCEPT !.status = IF @ = "" THEN StatusPending ELSE @,
               !.inserted_at = at, !.updated_at = at]

\* BeforeUpdate: the update timestamp only
BeforeUpdate(tj, at) == [tj EXCEPT !.updated_at = at]

\* a status column without its check
StatusCheckNone(tj) == TRUE

\* check:status IN ('pending', 'processing', 'completed', 'failed', 'cancelled')
StatusCheck(tj) ==
    tj.status \in {"pending", "processing", "completed", "failed", "cancelled"}

JobStatement(t, err) == [t |-> t, err |-> err]
JobRecord(tj) == [kind |-> "record", row |-> tj]
PutRow(table, id, tj) ==
    [i \in DOMAIN table \cup {id} |-> IF i = id THEN tj ELSE table[i]]

\* DB.Create(&tj): BeforeCreate, then the INSERT under the unique index on
\* job_id and the status check
JobCreate(s, ids, records) ==
    /\ rq[s].pc = "idle"
    /\ \E id \in ids, rec \in records :
         LET tj == BeforeCreate(rec, now)
             err == IF id \in DOMAIN tjobs THEN "duplicate key"
                    ELSE IF ~StatusCheck(tj) THEN "check constraint"
                    ELSE ""
         IN  /\ rq' = [rq EXCEPT ![s] =
                         [IdleReq EXCEPT !.pc = "done", !.handler = "TranscodingJob.Create",
                                         !.id = id, !.body = JobRecord(rec),
                                         !.out = JobStatement("insert", err)]]
             /\ tjobs' = IF err = "" THEN PutRow(tjobs, id, tj) ELSE tjobs
    /\ UNCHANGED <<now, vjobs, users>>

\* DB.Save(&tj) of a loaded job with its status set: BeforeUpdate, then the
\* UPDATE of every column under the status check
JobSave(s, ids, statuses) ==
    /\ rq[s].pc = "idle"
    /\ \E id \in ids \cap DOMAIN tjobs, st \in statuses :
         LET rec == [tjobs[id] EXCEPT !.status = st]
             tj == BeforeUpdate(rec, now)
             err == IF ~StatusCheck(tj) THEN "check constraint" ELSE ""
         IN  /\ rq' = [rq EXCEPT ![s] =
                         [IdleReq EXCEPT !.pc = "done", !.handler = "TranscodingJob.Save",
                                         !.id = id, !.body = JobRecord(rec),
                                         !.out = JobStatement("update", err)]]
             /\ tjobs' = IF err = "" THEN PutRow(tjobs, id, tj) ELSE tjobs
    /\ UNCHANGED <<now, vjobs, users>>

(***************************************************************************)
(* The users table and the handlers on it                                  *)
(***************************************************************************)
StatusCreated == 201
StatusConflict == 409

\* a password and the number of its bytes
Pw(x, n) == [s |-> x, len |-> n]
NoPw == Pw("", 0)
MinPasswordLen == 6

\* bcrypt.GenerateFromPassword, bcrypt.CompareHashAndPassword
BcryptHash(pw) == [bcrypt |-> pw.s]
BcryptMatches(hash, pw) == hash = BcryptHash(pw)

\* strings.Contains(email, "@") on the emails of the model
ContainsAt(email) == email \in {"a@x", "b@x", "c@x"}

\* json.NewDecoder(r.Body).Decode(&req) into a struct of strings: a missing
\* field and the document null leave the zero value; anything else that is
\* not an object is an error
DecodeFields(body) ==
    IF body.kind = "fields" THEN [email |-> body.email, err |-> FALSE, password |-> body.password]
    ELSE IF body.kind = "null" THEN [email |-> "", err |-> FALSE, password |-> NoPw]
    ELSE [email |-> "", err |-> TRUE, password |-> NoPw]

\* Where("email = ?", email).First(&user)
UserByEmail(email) == {i \in DOMAIN users.rows : users.rows[i].email = email}

UserJSON(i, row) == [email |-> row.email, id |-> i]
AuthResponse(token, i, row) == [t |-> "auth", token |-> token, user |-> UserJSON(i, row)]

WriteJSONStatus(w, code, payload) ==
    [w EXCEPT !.status = code, !.payload = payload,
              !.hdr = HeaderSet(w.hdr, "Content-Type", Text("application/json"))]

UserHandlers == {"Register", "Login", "GetProfile", "UpdateProfile"}

\* Register up to the existence check
RegisterCheck(s) ==
    /\ rq[s].pc = "handler"
    /\ rq[s].handler = "Register"
    /\ LET r == rq[s]
           req == DecodeFields(r.body)
           q == [r EXCEPT !.queries = @ + 1]
       IN  \/ /\ req.err
              /\ rq' = [rq EXCEPT ![s] = Done(r, HttpError(r.w, "Invalid JSON", StatusBadRequest))]
           \/ /\ ~req.err
              /\ req.email = "" \/ req.password.s = ""
              /\ rq' = [rq EXCEPT ![s] =
                          Done(r, HttpError(r.w, "Email and password are required",
                                            StatusBadRequest))]
           \/ /\ ~req.err
              /\ ~(req.email = "" \/ req.password.s = "")
              /\ rq' = [rq EXCEPT ![s] =
                          IF ~ContainsAt(req.email)
                          THEN Done(r, HttpError(r.w, "Invalid email format", StatusBadRequest))
                          ELSE IF req.password.len < MinPasswordLen
                          THEN Done(r, HttpError(r.w, "Password must be at least 6 characters",
                                                 StatusBadRequest))
                          ELSE IF UserByEmail(req.email) # {}
                          THEN Done(q, HttpError(r.w, "User already exists", StatusConflict))
                          ELSE [q EXCEPT !.pc = "create"]]
           \/ /\ ~req.err
              /\ ~(req.email = "" \/ req.password.s = "")
              /\ ContainsAt(req.email) /\ req.password.len >= MinPasswordLen
              /\ rq' = [rq EXCEPT ![s] =
                          Done(q, HttpError(r.w, "Internal server error",
                                            StatusInternalServerError))]
    /\ UNCHANGED <<now, tjobs, vjobs, users>>

\* DB.Create on a users table without the unique index on email
RegisterCreateNoIndex(s) ==
    /\ rq[s].pc = "create"
    /\ rq[s].handler = "Register"
    /\ LET r == rq[s]
           req == DecodeFields(r.body)
           id == users.seq + 1
           row == [email |-> req.email, password_hash |-> BcryptHash(req.password)]
       IN  \/ /\ rq' = [rq EXCEPT ![s] =
                          Done(r, HttpError(r.w, "Failed to create user",
                                            StatusInternalServerError))]
              /\ UNCHANGED users
           \/ /\ users.seq < MaxUsers
              /\ users' = [rows |-> [i \in DOMAIN users.rows \cup {id} |->
                                        IF i = id THEN row ELSE users.rows[i]],
                           seq |-> id]
              /\ rq' = [rq EXCEPT ![s] =
                          Done(r, WriteJSONStatus(r.w, StatusCreated,
                                    AuthResponse(generateJWT(id, req.email, now), id, row)))]
    /\ UNCHANGED <<now, tjobs, vjobs>>

\* Register from the hash on: DB.Create under the unique index on email, the token
RegisterCreate(s) ==
    /\ rq[s].pc = "create"
    /\ rq[s].handler = "Register"
    /\ LET r == rq[s]
           req == DecodeFields(r.body)
           id == users.seq + 1
           row == [email |-> req.email, password_hash |-> BcryptHash(req.password)]
       IN  \/ /\ rq' = [rq EXCEPT ![s] =
                          Done(r, HttpError(r.w, "Failed to create user",
                                            StatusInternalServerError))]
              /\ UNCHANGED users
           \/ /\ UserByEmail(req.email) = {}
              /\ users.seq < MaxUsers
              /\ users' = [rows |-> [i \in DOMAIN users.rows \cup {id} |->
                                        IF i = id THEN row ELSE users.rows[i]],
                           seq |-> id]
              /\ rq' = [rq EXCEPT ![s] =
                          Done(r, WriteJSONStatus(r.w, StatusCreated,
                                    AuthResponse(generateJWT(id, req.email, now), id, row)))]
    /\ UNCHANGED <<now, tjobs, vjobs>>

\* a Login that answers an unknown email with its own response
LoginTellsApart(s) ==
    /\ rq[s].pc = "handler"
    /\ rq[s].handler = "Login"
    /\ LET r == rq[s]
           req == DecodeFields(r.body)
           q == [r EXCEPT !.queries = @ + 1]
           found == UserByEmail(req.email)
       IN  \/ /\ req.err
              /\ rq' = [rq EXCEPT ![s] = Done(r, HttpError(r.w, "Invalid JSON", StatusBadRequest))]
           \/ /\ ~req.err
              /\ req.email = "" \/ req.password.s = ""
              /\ rq' = [rq EXCEPT ![s] =
                          Done(r, HttpError(r.w, "Email and password are required",
                                            StatusBadRequest))]
           \/ /\ ~req.err
              /\ ~(req.email = "" \/ req.password.s = "")
              /\ rq' = [rq EXCEPT ![s] =
                          Done(q, HttpError(r.w, "Internal server error",
                                            StatusInternalServerError))]
           \/ /\ ~req.err
              /\ ~(req.email = "" \/ req.password.s = "")
              /\ found = {}
              /\ rq' = [rq EXCEPT ![s] =
                          Done(q, HttpError(r.w, "User not found", StatusNotFound))]
           \/ /\ ~req.err
              /\ ~(req.email = "" \/ req.password.s = "")
              /\ \E i \in found :
                    rq' = [rq EXCEPT ![s] =
                             IF ~BcryptMatches(users.rows[i].password_hash, req.password)
                             THEN Done(q, HttpError(r.w, "Invalid credentials",
                                                    StatusUnauthorized))
                             ELSE Done(q, WriteJSON(r.w,
                                   AuthResponse(generateJWT(i, users.rows[i].email, now),
                                                i, users.rows[i])))]
    /\ UNCHANGED <<now, tjobs, vjobs, users>>

Login(s) ==
    /\ rq[s].pc = "handler"
    /\ rq[s].handler = "Login"
    /\ LET r == rq[s]
           req == DecodeFields(r.body)
           q == [r EXCEPT !.queries = @ + 1]
           found == UserByEmail(req.email)
       IN  \/ /\ req.err
              /\ rq' = [rq EXCEPT ![s] = Done(r, HttpError(r.w, "Invalid JSON", StatusBadRequest))]
           \/ /\ ~req.err
              /\ req.email = "" \/ req.password.s = ""
              /\ rq' = [rq EXCEPT ![s] =
                          Done(r, HttpError(r.w, "Email and password are required",
                                            StatusBadRequest))]
           \/ /\ ~req.err
              /\ ~(req.email = "" \/ req.password.s = "")
              /\ rq' = [rq EXCEPT ![s] =
                          Done(q, HttpError(r.w, "Internal server error",
                                            StatusInternalServerError))]
           \/ /\ ~req.err
              /\ ~(req.email = "" \/ req.password.s = "")
              /\ found = {}
              /\ rq' = [rq EXCEPT ![s] =
                          Done(q, HttpError(r.w, "Invalid credentials", StatusUnauthorized))]
           \/ /\ ~req.err
              /\ ~(req.email = "" \/ req.password.s = "")
              /\ \E i \in found :
                    rq' = [rq EXCEPT ![s] =
                             IF ~BcryptMatches(users.rows[i].password_hash, req.password)
                             THEN Done(q, HttpError(r.w, "Invalid credentials",
                                                    StatusUnauthorized))
                             ELSE Done(q, WriteJSON(r.w,
                                   AuthResponse(generateJWT(i, users.rows[i].email, now),
                                                i, users.rows[i])))]
    /\ UNCHANGED <<now, tjobs, vjobs, users>>

GetProfile(s) ==
    /\ rq[s].pc = "handler"
    /\ rq[s].handler = "GetProfile"
    /\ LET r == rq[s]
           q == [r EXCEPT !.queries = @ + 1]
           uid == Uint(r.ctx.user_id)
       IN  \/ /\ ~UserContextOk(r.ctx)
              /\ rq' = [rq EXCEPT ![s] =
                          Done(r, HttpError(r.w, "Invalid user context",
                                            StatusInternalServerError))]
           \/ /\ UserContextOk(r.ctx)
              /\ rq' = [rq EXCEPT ![s] =
                          Done(q, HttpError(r.w, "Internal server error",
                                            StatusInternalServerError))]
           \/ /\ UserContextOk(r.ctx)
              /\ rq' = [rq EXCEPT ![s] =
                          IF uid \notin DOMAIN users.rows
                          THEN Done(q, HttpError(r.w, "User not found", StatusNotFound))
                          ELSE Done(q, WriteJSON(r.w,
                                  [t |-> "user", user |-> UserJSON(uid, users.rows[uid])]))]
    /\ UNCHANGED <<now, tjobs, vjobs, users>>

\* UpdateProfile: First(&user, id), the new email when one is given, DB.Save under
\* the unique index on email
UpdateProfile(s) ==
    /\ rq[s].pc = "handler"
    /\ rq[s].handler = "UpdateProfile"
    /\ LET r == rq[s]
           upd == DecodeFields(r.body)
           q == [r EXCEPT !.queries = @ + 1]
           uid == Uint(r.ctx.user_id)
       IN  \/ /\ ~UserContextOk(r.ctx)
              /\ rq' = [rq EXCEPT ![s] =
                          Done(r, HttpError(r.w, "Invalid user context",
                                            StatusInternalServerError))]
              /\ UNCHANGED users
           \/ /\ UserContextOk(r.ctx)
              /\ upd.err
              /\ rq' = [rq EXCEPT ![s] = Done(r, HttpError(r.w, "Invalid JSON", StatusBadRequest))]
              /\ UNCHANGED users
           \/ /\ UserContextOk(r.ctx)
              /\ ~upd.err
              /\ rq' = [rq EXCEPT ![s] =
                          Done(q, HttpError(r.w, "User not found", StatusNotFound))]
              /\ UNCHANGED users
           \/ /\ UserContextOk(r.ctx)
              /\ ~upd.err
              /\ uid \in DOMAIN users.rows
              /\ rq' = [rq EXCEPT ![s] =
                          Done(q, HttpError(r.w, "Failed to update user",
                                            StatusInternalServerError))]
              /\ UNCHANGED users
           \/ /\ UserContextOk(r.ctx)
              /\ ~upd.err
              /\ uid \in DOMAIN users.rows
              /\ LET email == IF upd.email # "" THEN upd.email ELSE users.rows[uid].email
                     user == [users.rows[uid] EXCEPT !.email = email]
                 IN  /\ UserByEmail(email) \subseteq {uid}
                     /\ users' = [users EXCEPT !.rows[uid] = user]
                     /\ rq' = [rq EXCEPT ![s] =
                                 Done(q, WriteJSON(r.w,
                                        [t |-> "user", user |-> UserJSON(uid, user)]))]
    /\ UNCHANGED <<now, tjobs, vjobs>>

(***************************************************************************)
(* The router (github.com/gorilla/mux) and the routes main registers       *)
(***************************************************************************)
StatusMethodNotAllowed == 405

\* a path is the sequence of its segments; the pattern segment {id} matches any one
IdVar == "{id}"
Route(method, path, handler, auth) ==
    [handler |-> handler, method |-> method, path |-> path, auth |-> auth]

Routes ==
    << Route("GET", <<"health">>, "Health", FALSE),
       Route("POST", <<"auth", "register">>, "Register", FALSE),
       Route("POST", <<"auth", "login">>, "Login", FALSE),
       Route("GET", <<"auth", "profile">>, "GetProfile", TRUE),
       Route("PUT", <<"auth", "profile">>, "UpdateProfile", TRUE),
       Route("POST", <<"auth", "video", "analyze">>, "AnalyzeVideoProxy", TRUE),
       Route("GET", <<"auth", "video", "analyze">>, "GetAnalyzeVideoProxy", TRUE),
       Route("POST", <<"auth", "video", "transcode">>, "TranscodeVideoProxy", TRUE),
       Route("GET", <<"auth", "video", "transcode">>, "GetVideoTranscodes", TRUE),
       Route("GET", <<"auth", "video", "transcode", IdVar>>, "GetVideoTranscodeInfo", TRUE),
       Route("GET", <<"auth", "video", "transcode", IdVar, "download">>,
             "DownloadVideoFromS3", TRUE) >>

PathMatches(pattern, path) ==
    /\ Len(pattern) = Len(path)
    /\ \A i \in 1..Len(path) : pattern[i] = IdVar \/ pattern[i] = path[i]

\* mux.Vars(r)["id"]
PathVar(pattern, path) ==
    LET at == {i \in 1..Len(pattern) : pattern[i] = IdVar}
    IN  IF at = {} THEN "" ELSE path[CHOOSE i \in at : TRUE]

\* Router.Match: the first route matching path and method; a path that matches
\* under another method only is 405, no match is 404
MuxMatch(method, path) ==
    LET byPath == {i \in DOMAIN Routes : PathMatches(Routes[i].path, path)}
        hits == {i \in byPath : Routes[i].method = method}
    IN  IF hits # {}
        THEN [t |-> "route", route |-> Routes[CHOOSE i \in hits : \A j \in hits : i <= j]]
        ELSE IF byPath # {} THEN [t |-> "MethodNotAllowed"]
        ELSE [t |-> "NotFound"]

\* the handlers that decode the request body into a struct
FormReaders == {"Register", "Login", "UpdateProfile"}

\* router.ServeHTTP: a matched request runs corsMiddleware, then the route's
\* handler (behind AuthMiddleware where main wraps it); an unmatched one is
\* answered by the router itself
Dispatch(s, methods, paths, headers, bodies, forms) ==
    /\ rq[s].pc = "idle"
    /\ \E method \in methods, path \in paths, hd \in headers, b \in bodies, f \in forms :
          LET m == MuxMatch(method, path)
              r == [IdleReq EXCEPT !.method = method, !.path = path, !.hdrs = hd]
          IN  rq' = [rq EXCEPT ![s] =
                IF m.t = "NotFound"
                THEN Done([r EXCEPT !.handler = "NotFound"],
                          HttpError(NewWriter, "404 page not found", StatusNotFound))
                ELSE IF m.t = "MethodNotAllowed"
                THEN Done([r EXCEPT !.handler = "MethodNotAllowed"],
                          [NewWriter EXCEPT !.status = StatusMethodNotAllowed])
                ELSE [r EXCEPT !.handler = m.route.handler,
                               !.id = PathVar(m.route.path, path),
                               !.body = IF m.route.handler \in ProxyHandlers THEN b
                                        ELSE IF m.route.handler \in FormReaders THEN f
                                        ELSE NoBody,
                               !.guarded = m.route.auth,
                               !.entered = ~m.route.auth,
                               !.pc = IF m.route.auth THEN "auth" ELSE "handler",
                               !.w = [NewWriter EXCEPT !.hdr = CorsHeaders]]]
    /\ UNCHANGED <<now, tjobs, vjobs, users>>

\* the route /health
Health(s) ==
    /\ rq[s].pc = "handler"
    /\ rq[s].handler = "Health"
    /\ rq' = [rq EXCEPT ![s] =
                Done(rq[s], WriteJSONStatus(rq[s].w, StatusOK,
                                [t |-> "health", status |-> "ok", service |-> "auth-service"]))]
    /\ UNCHANGED <<now, tjobs, vjobs, users>>

\* handlers.GetAnalyzeVideoProxy is named by main and defined nowhere in package
\* handlers: the request ends without a response of the gateway's
GetAnalyzeVideoProxy(s) ==
    /\ rq[s].pc = "handler"
    /\ rq[s].handler = "GetAnalyzeVideoProxy"
    /\ rq' = [rq EXCEPT ![s] = [rq[s] EXCEPT !.pc = "done"]]
    /\ UNCHANGED <<now, tjobs, vjobs, users>>

(***************************************************************************)
(* Inputs                                                                  *)
(***************************************************************************)
SeqsUpTo(S, n) == UNION {[1..k -> S] : k \in 0..n}

\* two tokens the service issued, and three it did not: a forged signature, and
\* two carrying the service's signature without a numeric subject
Token1 == generateJWT(1, "a@x", 0)
Token2 == generateJWT(2, "b@x", TokenTTL)
TokenForged == [Token1 EXCEPT !.sig = "bad", !.exp = NumClaim(MaxTime + TokenTTL)]
TokenNoSubject == [Token2 EXCEPT !.user_id = NoClaim]
TokenTextSubject ==
    [Token2 EXCEPT !.user_id = StrClaim("7"), !.email = NoClaim, !.exp = NoClaim]
InputTokens == {Token1, Token2, TokenForged, TokenNoSubject, TokenTextSubject}

AuthAtoms == {Sp, Word("Bearer"), Word("bearer")} \cup {Tok(tk) : tk \in InputTokens}
AuthValues == SeqsUpTo(AuthAtoms, MaxHeaderLen)
Bearer(tk) == <<Word("Bearer"), Sp, Tok(tk)>>

WithAuth(h, value) == HeaderSet(h, "Authorization", value)

\* every Authorization value, and no Authorization header at all
AnyAuthHeaders == {NoHeaders} \cup {WithAuth(NoHeaders, v) : v \in AuthValues}

JsonValues == {JInt(7), JNum(2^27, 1), JStr("s3://b/in.mp4")}
JsonMembers == {[v |-> v, k |-> k] : k \in Keys, v \in JsonValues}
Object(members) == [kind |-> "object", members |-> members]
NotObjects == {[kind |-> k] : k \in {"readerr", "invalid", "null", "array", "scalar"}}
AnyBodies == {NoBody} \cup NotObjects \cup {Object(m) : m \in SeqsUpTo(JsonMembers, MaxMembers)}
FewBodies == {NoBody, [kind |-> "null"], [kind |-> "invalid"],
              Object(<<[v |-> JStr("s3://b/in.mp4"), k |-> "source_path"]>>)}

Bytes == {0, 1}
Response(status, hdr, body) == [t |-> "response", status |-> status, hdr |-> hdr, body |-> body]
FewResponses ==
    {Response(StatusOK, HeaderSet(NoHeaders, "Content-Type", Text("application/json")),
              <<0, 1, 1>>),
     Response(StatusInternalServerError, NoHeaders, <<>>)}
FewObjects ==
    {[t |-> "object", body |-> <<1, 0, 1>>, length |-> Length(3)],
     [t |-> "object", body |-> <<>>, length |-> NullLength]}

\* the caller's other headers: any subset of the names, each with one of its values
HeaderChoices ==
    [n \in {"Content-Length", "Content-Type", "X-Request-Id"} |->
        IF n = "Content-Length" THEN {<<Itoa(5)>>}
        ELSE IF n = "Content-Type" THEN {<<Text("text/plain")>>, <<Text("text/plain"), Text("text/html")>>}
        ELSE {<<Text("r1")>>, <<Text("r1"), Text("r2")>>}]
HeadersFrom(choices) ==
    UNION {{h \in [names -> UNION {choices[n] : n \in DOMAIN choices}] :
                \A n \in names : h[n] \in choices[n]} :
           names \in SUBSET DOMAIN choices}
ProxyHeaders ==
    {WithAuth(h, Bearer(tk)) : h \in HeadersFrom(HeaderChoices), tk \in {Token1, Token2}}

ResponseHeaderChoices ==
    [n \in {"Content-Type", "Access-Control-Allow-Origin", "Set-Cookie"} |->
        IF n = "Content-Type" THEN {<<Text("application/json")>>}
        ELSE IF n = "Access-Control-Allow-Origin" THEN {<<Text("https://app.example")>>}
        ELSE {<<Text("a=1")>>, <<Text("a=1"), Text("b=2")>>}]
AnyResponses ==
    {Response(st, h, b) : st \in {StatusOK, StatusNotFound},
                          h \in HeadersFrom(ResponseHeaderChoices),
                          b \in SeqsUpTo(Bytes, MaxBody)}

AllHandlers == ProxyHandlers \cup SingleReads \cup CollectionReads

\* stored output locators: nil, and every string of up to MaxLocator atoms
LocatorAtoms ==
    {Scheme, Slash, Name("bucket-a"), Ext("MP4"), Ext("mkv"), Ext("txt"), Ext("")}
ExampleLocator ==
    <<Scheme, Name("bucket-a"), Slash, Name("path"), Slash, Name("to"), Slash,
      Name("file"), Ext("mp4")>>
AnyLocators ==
    {NullURL, URL(ExampleLocator)} \cup {URL(x) : x \in SeqsUpTo(LocatorAtoms, MaxLocator)}

\* job tables: each id absent, or a row with any owner (NULL included) and any of
\* MaxStamp creation times
RowChoices ==
    {[at |-> 0, present |-> FALSE, owner |-> NullOwner]}
    \cup {[at |-> t, present |-> TRUE, owner |-> o] :
             o \in {NullOwner, Owner(1), Owner(2)}, t \in 1..MaxStamp}
TableChoices == [WellFormedIDs -> RowChoices]
TJobsOf(c) ==
    [i \in {j \in WellFormedIDs : c[j].present} |->
        [status |-> "pending", inserted_at |-> c[i].at, created_by |-> c[i].owner,
         updated_at |-> c[i].at, output_url |-> NullURL]]
VJobsOf(c) ==
    [i \in {j \in WellFormedIDs : c[j].present} |->
        [created_at |-> c[i].at, created_by |-> c[i].owner]]

\* request bodies of the handlers on the users table
Fields(email, password) == [email |-> email, kind |-> "fields", password |-> password]
Emails == {"", "nobody", "a@x", "c@x"}
Passwords == {NoPw, Pw("short", 5), Pw("secret1", 7), Pw("secret2", 7)}
Forms == {NoBody, [kind |-> "null"]} \cup {Fields(e, p) : e \in Emails, p \in Passwords}

\* request lines: every method on the paths of the routes, and on one path of none
Methods == {"GET", "POST", "PUT"}
RoutePaths ==
    {<<"health">>, <<"auth", "register">>, <<"auth", "login">>, <<"auth", "profile">>,
     <<"nowhere">>}
    \cup {<<"auth", "video", k>> : k \in {"analyze", "transcode"}}
    \cup {<<"auth", "video", k, i>> : k \in {"analyze", "transcode"},
                                     i \in {"uuid-a", "not-a-uuid"}}
    \cup {<<"auth", "video", k, "uuid-a", "download">> : k \in {"analyze", "transcode"}}
RouteHeaders == {NoHeaders} \cup {WithAuth(NoHeaders, Bearer(tk)) : tk \in {Token1, Token2}}

(***************************************************************************)
(* The gateway                                                             *)
(***************************************************************************)
TJobs0 ==
    [i \in {"uuid-a", "uuid-b"} |->
        IF i = "uuid-a"
        THEN [status |-> "completed", inserted_at |-> 1, created_by |-> Owner(1),
              updated_at |-> 1,
              output_url |-> URL(<<Scheme, Name("bucket-a"), Slash, Name("file"), Ext("mp4")>>)]
        ELSE [status |-> "pending", inserted_at |-> 2, created_by |-> Owner(2),
              updated_at |-> 2, output_url |-> NullURL]]
VJobs0 ==
    [i \in {"uuid-a", "uuid-b"} |->
        IF i = "uuid-a" THEN [created_at |-> 1, created_by |-> Owner(1)]
        ELSE [created_at |-> 2, created_by |-> Owner(2)]]

Users0 ==
    [rows |-> [i \in {1, 2} |->
                 IF i = 1 THEN [email |-> "a@x", password_hash |-> BcryptHash(Pw("secret1", 7))]
                 ELSE [email |-> "b@x", password_hash |-> BcryptHash(Pw("secret2", 7))]],
     seq |-> 2]

Init ==
    /\ rq = [s \in Slots |-> IdleReq]
    /\ now = 0
    /\ tjobs = TJobs0
    /\ vjobs = VJobs0
    /\ users = Users0

ServeProxy(s, responses) ==
    \/ AuthMiddleware(s)
    \/ ProxyPrepare(s)
    \/ ProxyDispatch(s, responses)
    \/ ProxyCopy(s)
    \/ Finish(s)

Serve(s, responses, objects) ==
    \/ ServeProxy(s, responses)
    \/ CollectionRead(s)
    \/ SingleRead(s)
    \/ DownloadPrepare(s)
    \/ DownloadFetch(s, objects)
    \/ DownloadCopy(s)

Next ==
    \/ \E s \in SeqSlots : Arrive(s, AllHandlers, AnyAuthHeaders, FewBodies, PathIDs)
    \/ \E s \in SeqSlots : Serve(s, FewResponses, FewObjects)
    \/ Tick

Spec == Init /\ [][Next]_vars

\* the write path alone: every body and header set, under a token the service issued
NextProxy ==
    \/ \E s \in SeqSlots : Arrive(s, ProxyHandlers, ProxyHeaders, AnyBodies, {""})
    \/ \E s \in SeqSlots : ServeProxy(s, FewResponses)

SpecProxy == Init /\ [][NextProxy]_vars

\* the write path alone: every backend response
NextRelay ==
    \/ \E s \in SeqSlots :
          Arrive(s, ProxyHandlers, {WithAuth(NoHeaders, Bearer(Token2))}, FewBodies, {""})
    \/ \E s \in SeqSlots : ServeProxy(s, AnyResponses)

SpecRelay == Init /\ [][NextRelay]_vars

\* the download alone, over every stored locator of the caller's job
InitDownload ==
    /\ rq = [s \in Slots |-> IdleReq]
    /\ now = 0
    /\ \E url \in AnyLocators : tjobs = [TJobs0 EXCEPT !["uuid-a"].output_url = url]
    /\ vjobs = VJobs0
    /\ users = Users0

NextDownload ==
    \/ \E s \in SeqSlots :
          Arrive(s, {"DownloadVideoFromS3"}, {WithAuth(NoHeaders, Bearer(Token1))},
                 {NoBody}, {"uuid-a", "uuid-b"})
    \/ \E s \in SeqSlots : AuthMiddleware(s)
    \/ \E s \in SeqSlots : DownloadPrepare(s)
    \/ \E s \in SeqSlots : DownloadFetch(s, FewObjects)
    \/ \E s \in SeqSlots : DownloadCopy(s)
    \/ \E s \in SeqSlots : Finish(s)

SpecDownload == InitDownload /\ [][NextDownload]_vars

\* the collection reads alone, over every content of the two job tables
InitList ==
    /\ rq = [s \in Slots |-> IdleReq]
    /\ now = 0
    /\ \E c \in TableChoices : tjobs = TJobsOf(c) /\ vjobs = VJobsOf(c)
    /\ users = Users0

NextList ==
    \/ \E s \in SeqSlots :
          Arrive(s, CollectionReads,
                 {WithAuth(NoHeaders, Bearer(tk)) : tk \in {Token1, Token2}}, {NoBody}, {""})
    \/ \E s \in SeqSlots : AuthMiddleware(s)
    \/ \E s \in SeqSlots : CollectionRead(s)
    \/ \E s \in SeqSlots : Finish(s)

SpecList == InitList /\ [][NextList]_vars

\* requests served concurrently, one goroutine each: two callers on a proxy and on
\* the transcoding reads
ConcResponses ==
    {Response(StatusOK, HeaderSet(NoHeaders, "Content-Type", Text("application/json")),
              <<>>)}
ServeConc(s) ==
    \/ AuthMiddleware(s)
    \/ ProxyPrepare(s)
    \/ ProxyDispatch(s, ConcResponses)
    \/ ProxyCopy(s)
    \/ CollectionRead(s)
    \/ SingleRead(s)
    \/ Finish(s)

NextConc ==
    \/ \E s \in Slots :
          Arrive(s, {"AnalyzeVideoProxy", "GetVideoTranscodes", "GetVideoTranscodeInfo"},
                 {WithAuth(NoHeaders, Bearer(tk)) : tk \in {Token1, Token2}},
                 {Object(<<[v |-> JInt(7), k |-> "user"]>>)}, {"uuid-a"})
    \/ \E s \in Slots : ServeConc(s)

SpecConc == Init /\ [][NextConc]_vars

\* the program behind its router: every request line, every handler main names
ServeUsers(s) ==
    \/ RegisterCheck(s)
    \/ RegisterCreate(s)
    \/ Login(s)
    \/ GetProfile(s)
    \/ UpdateProfile(s)
    \/ Health(s)
    \/ GetAnalyzeVideoProxy(s)

NextRouted ==
    \/ \E s \in SeqSlots :
          Dispatch(s, Methods, RoutePaths, RouteHeaders,
                   {NoBody, Object(<<[v |-> JStr("s3://b/in.mp4"), k |-> "source_path"]>>)},
                   Forms)
    \/ \E s \in SeqSlots : Serve(s, FewResponses, FewObjects)
    \/ \E s \in SeqSlots : ServeUsers(s)
    \/ Tick

SpecRouted == Init /\ [][NextRouted]_vars

\* every handler of the package: the routed program, and the two analysis reads
\* called behind AuthMiddleware
NextGateway ==
    \/ NextRouted
    \/ \E s \in SeqSlots :
          Arrive(s, {"GetVideoAnalyses", "GetVideoAnalysesInfo"}, RouteHeaders, {NoBody},
                 {"uuid-a", "uuid-c"})

SpecGateway == Init /\ [][NextGateway]_vars

\* the TranscodingJob model on its own: records of any status created and saved
JobStatuses ==
    {"", "Pending", "done", StatusPending, StatusProcessing, StatusCompleted,
     StatusFailed, StatusCancelled}
JobIds == {"uuid-a", "uuid-b"}
JobRecords ==
    {[status |-> st, inserted_at |-> 0, created_by |-> Owner(1), updated_at |-> 0,
      output_url |-> NullURL] : st \in JobStatuses}
NoJobs == [i \in {} |-> NoJob]
InitJobs ==
    /\ rq = [s \in Slots |-> IdleReq]
    /\ now = 0
    /\ tjobs = NoJobs
    /\ vjobs = VJobs0
    /\ users = Users0
NextJobs ==
    \/ \E s \in SeqSlots : JobCreate(s, JobIds, JobRecords)
    \/ \E s \in SeqSlots : JobSave(s, JobIds, JobStatuses)
    \/ \E s \in SeqSlots : Finish(s)
    \/ Tick
SpecJobs == InitJobs /\ [][NextJobs]_vars

\* concurrent registrations: one stored user, and requests for one new email
\* and for the stored one on every goroutine
UsersOne ==
    [rows |-> [i \in {1} |-> [email |-> "a@x", password_hash |-> BcryptHash(Pw("secret1", 7))]],
     seq |-> 1]
RegisterForms ==
    {Fields("c@x", Pw("secret1", 7)), Fields("c@x", Pw("secret2", 7)),
     Fields("a@x", Pw("secret2", 7))}
InitRegister ==
    /\ rq = [s \in Slots |-> IdleReq]
    /\ now = 0
    /\ tjobs = TJobs0
    /\ vjobs = VJobs0
    /\ users = UsersOne
NextRegister ==
    \/ \E s \in Slots :
          Dispatch(s, {"POST"}, {<<"auth", "register">>}, {NoHeaders}, {NoBody}, RegisterForms)
    \/ \E s \in Slots : RegisterCheck(s)
    \/ \E s \in Slots : RegisterCreate(s)
    \/ \E s \in Slots : Finish(s)
SpecRegister == InitRegister /\ [][NextRegister]_vars

\* sessions: a client registers or logs in on one goroutine and presents the
\* token of the response it holds on the protected routes, served by another
\* goroutine, while the clock moves
SessionForms == {Fields("a@x", Pw("secret1", 7)), Fields("c@x", Pw("secret1", 7))}
IssuedHeaders ==
    {WithAuth(NoHeaders, Bearer(rq[t].w.payload.token)) :
        t \in {u \in Slots : rq[u].pc = "done" /\ rq[u].w.payload.t = "auth"}}
NextSession ==
    \/ \E s \in SeqSlots :
          Dispatch(s, {"POST"}, {<<"auth", "register">>, <<"auth", "login">>}, {NoHeaders},
                   {NoBody}, SessionForms)
    \/ \E s \in {MaxConc} :
          Dispatch(s, {"GET", "PUT"}, {<<"auth", "profile">>, <<"auth", "video", "transcode">>},
                   IssuedHeaders, {NoBody}, SessionForms)
    \/ \E s \in Slots : RegisterCheck(s)
    \/ \E s \in Slots : RegisterCreate(s)
    \/ \E s \in Slots : Login(s)
    \/ \E s \in Slots : AuthMiddleware(s)
    \/ \E s \in Slots : GetProfile(s)
    \/ \E s \in Slots : UpdateProfile(s)
    \/ \E s \in Slots : CollectionRead(s)
    \/ \E s \in Slots : Finish(s)
    \/ Tick
SpecSession == Init /\ [][NextSession]_vars

(***************************************************************************)
(* Properties                                                              *)
(***************************************************************************)
\* what the caller sent, read without the middleware's help
AuthValue(r) == HeaderGet(r.hdrs, "Authorization", <<>>)
TwoTokenBearer(v) ==
    /\ Len(v) >= 2
    /\ v[1] = Word("Bearer")
    /\ v[2] = Sp
    /\ \A i \in 3..Len(v) : v[i] # Sp
PresentedToken(r) == TokenOf(SubSeq(AuthValue(r), 3, Len(AuthValue(r))))
Verifies(tok, at) ==
    /\ tok.form = "jwt"
    /\ tok.sig = "ok"
    /\ tok.exp.t = "num" => at < tok.exp.v
GoodCredential(r) ==
    TwoTokenBearer(AuthValue(r)) /\ Verifies(PresentedToken(r), r.authAt)
PastAuth(r) == r.pc \notin {"idle", "auth"}
FreshWriter == [NewWriter EXCEPT !.hdr = CorsHeaders]

\* C1: a request without a well-formed, verifying bearer token is answered 401
\* and its handler is never entered: no outbound request, no query, no fetch
C1_RejectedBeforeAnyWork ==
    \A s \in Slots :
        LET r == rq[s] IN
        (PastAuth(r) /\ ~GoodCredential(r)) =>
            /\ r.pc = "done"
            /\ r.w.status = StatusUnauthorized
            /\ ~r.entered
            /\ r.out = NoOut
            /\ r.dispatches = 0 /\ r.queries = 0 /\ r.fetches = 0

\* an issued token presented after its expiry
C1_Witness ==
    \E s \in Slots :
        /\ rq[s].pc = "done"
        /\ AuthValue(rq[s]) = Bearer(Token1)
        /\ rq[s].authAt >= TokenTTL
        /\ rq[s].w.status = StatusUnauthorized

\* C6: the header is classified with the precedence missing, malformed, invalid,
\* accepted; malformed is decided before the token is parsed; failures answer 401
C6_Classification ==
    \A s \in Slots :
        LET r == rq[s]
            v == AuthValue(r)
        IN  PastAuth(r) =>
            /\ v = <<>> => r.authError = "MissingCredential" /\ ~r.verified
            /\ (v # <<>> /\ ~TwoTokenBearer(v)) =>
                   r.authError = "MalformedCredential" /\ ~r.verified
            /\ (TwoTokenBearer(v) /\ ~Verifies(PresentedToken(r), r.authAt)) =>
                   r.authError = "InvalidCredential"
            /\ (TwoTokenBearer(v) /\ Verifies(PresentedToken(r), r.authAt)) =>
                   r.authError = "none" /\ r.entered
            /\ r.authError # "none" =>
                   r.pc = "done" /\ r.w.status = StatusUnauthorized /\ ~r.entered

\* a lower-case scheme before a token that would verify
C6_Witness ==
    \E s \in Slots :
        /\ rq[s].pc = "done"
        /\ AuthValue(rq[s]) = <<Word("bearer"), Sp, Tok(Token2)>>
        /\ rq[s].authError = "MalformedCredential"

\* C7: a request handed to a handler carries a numeric subject and an email
C7_IdentityComplete ==
    \A s \in Slots :
        rq[s].entered => rq[s].ctx.user_id.t = "num" /\ rq[s].ctx.email.t = "str"

\* C2: a single read returns only the caller's rows, and answers a foreign row
\* exactly as it answers an absent one
Subject(r) == PresentedToken(r).user_id
ForeignOrAbsent(r) ==
    LET table == TableOf(r.handler) IN
    r.id \notin DOMAIN table \/ table[r.id].created_by # Owner(Subject(r).v)

C2_OwnerScopedReads ==
    \A s \in Slots :
        LET r == rq[s] IN
        (/\ r.handler \in SingleReads
         /\ r.entered /\ r.pc # "handler"
         /\ Subject(r).t = "num"
         /\ UuidParseOk(r.id)) =>
            /\ r.job.found =>
                   r.job.id = r.id /\ r.job.row.created_by = Owner(Subject(r).v)
            /\ r.w.payload.t = "row" =>
                   r.w.payload.id = r.id
                   /\ r.w.payload.row.created_by = Owner(Subject(r).v)
            /\ ForeignOrAbsent(r) =>
                   /\ r.pc = "done"
                   /\ ~r.job.found /\ r.fetches = 0 /\ r.w.payload = NoPayload
                   /\ r.w \in {HttpError(FreshWriter, NotFoundText(r.handler), StatusNotFound),
                               HttpError(FreshWriter, QueryErrorText(r.handler),
                                         StatusInternalServerError)}

\* caller 2 asks for the transcoding job of caller 1
C2_Witness ==
    \E s \in Slots :
        /\ rq[s].pc = "done"
        /\ rq[s].handler = "GetVideoTranscodeInfo"
        /\ rq[s].id = "uuid-a"
        /\ rq[s].id \in DOMAIN tjobs
        /\ Subject(rq[s]) = NumClaim(2)
        /\ rq[s].w.status = StatusNotFound

\* C10: one dispatch at most per request; a failed dispatch answers 502
C10_SingleDispatch ==
    \A s \in Slots :
        LET r == rq[s] IN
        /\ r.dispatches <= 1
        /\ (r.handler \in ProxyHandlers /\ r.dispatches = 1 /\ r.resp = NoResp) =>
               r.pc = "done" /\ r.w.status = StatusBadGateway

C10_Witness ==
    \E s \in Slots :
        /\ rq[s].dispatches = 1
        /\ rq[s].resp = NoResp
        /\ rq[s].w.status = StatusBadGateway

\* the body and headers handed to client.Do
Forwarded(r) == r.out.t = "request"
RouteKey(r) == IF r.handler = "AnalyzeVideoProxy" THEN "user" ELSE "created_by"
OtherKey(r) == IF r.handler = "AnalyzeVideoProxy" THEN "created_by" ELSE "user"
At(members, k) == {i \in DOMAIN members : members[i].k = k}
CallerMembers(r) == IF r.body.kind = "object" THEN r.body.members ELSE <<>>
LastAt(members, k) == CHOOSE i \in At(members, k) : \A j \in At(members, k) : j <= i

\* C3: the forwarded body carries the caller's subject under the route's key,
\* once, whatever the caller wrote there; the other route's key is never added
C3_SubjectInjected ==
    \A s \in Slots :
        LET r == rq[s]
            fm == r.out.body.members
        IN  Forwarded(r) =>
            /\ Cardinality(At(fm, RouteKey(r))) = 1
            /\ \A i \in At(fm, RouteKey(r)) : fm[i].v = JInt(Subject(r).v)
            /\ At(fm, OtherKey(r)) # {} => At(CallerMembers(r), OtherKey(r)) # {}

\* the analysis route, the caller writing another subject under "user"
C3_Witness ==
    \E s \in Slots :
        /\ Forwarded(rq[s])
        /\ rq[s].handler = "AnalyzeVideoProxy"
        /\ Subject(rq[s]) = NumClaim(2)
        /\ \E i \in At(CallerMembers(rq[s]), "user") : CallerMembers(rq[s])[i].v = JInt(7)

\* C4: a non-empty body that is not a JSON object is answered 400 and nothing
\* is built or sent
C4_NonObjectRejected ==
    \A s \in Slots :
        LET r == rq[s] IN
        (/\ r.handler \in ProxyHandlers
         /\ r.entered /\ r.pc # "handler"
         /\ r.ctx.user_id.t = "num"
         /\ r.body.kind \in {"invalid", "array", "scalar", "null"}) =>
            /\ r.w.status = StatusBadRequest
            /\ r.out = NoOut
            /\ r.dispatches = 0

\* C8: the forwarded keys are the caller's keys and the route's key, and every
\* other key keeps the caller's value; an empty body forwards the route's key alone
C8_FramePreserved ==
    \A s \in Slots :
        LET r == rq[s]
            fm == r.out.body.members
            cm == CallerMembers(r)
        IN  Forwarded(r) =>
            /\ {fm[i].k : i \in DOMAIN fm} = {cm[i].k : i \in DOMAIN cm} \cup {RouteKey(r)}
            /\ \A i \in DOMAIN fm :
                  fm[i].k # RouteKey(r) => fm[i].v = cm[LastAt(cm, fm[i].k)].v
            /\ r.body.kind = "empty" =>
                  fm = <<[v |-> JInt(Subject(r).v), k |-> RouteKey(r)]>>

\* C9: the outbound headers are the caller's without Authorization, with
\* Content-Type application/json and Content-Length the forwarded body's length
C9_OutboundHeaders ==
    \A s \in Slots :
        LET r == rq[s]
            oh == r.out.hdr
        IN  Forwarded(r) =>
            /\ DOMAIN oh = (DOMAIN r.hdrs \ {"Authorization"})
                               \cup {"Content-Type", "Content-Length"}
            /\ oh["Content-Type"] = <<Text("application/json")>>
            /\ oh["Content-Length"] = <<Itoa(ByteLen(r.out.body))>>
            /\ \A n \in DOMAIN r.hdrs \ {"Authorization", "Content-Type", "Content-Length"} :
                  oh[n] = r.hdrs[n]

\* the caller sent its own Content-Length and Content-Type and a repeated header
C9_Witness ==
    \E s \in Slots :
        /\ Forwarded(rq[s])
        /\ {"Authorization", "Content-Length", "Content-Type", "X-Request-Id"}
               \subseteq DOMAIN rq[s].hdrs
        /\ Len(rq[s].hdrs["X-Request-Id"]) = 2
        /\ rq[s].hdrs["Content-Length"] # <<Itoa(ByteLen(rq[s].out.body))>>

\* C5 as stated: the relayed status, headers and body are the backend's
Relayed(r) == r.handler \in ProxyHandlers /\ r.resp # NoResp
ValuesOf(h, n) == IF n \in DOMAIN h THEN h[n] ELSE <<>>

C5_RelayVerbatim ==
    \A s \in Slots :
        LET r == rq[s] IN
        (Relayed(r) /\ r.pc = "done") =>
            /\ r.w.status = r.resp.status
            /\ r.w.hdr = r.resp.hdr
            /\ r.w.body = r.resp.body

\* C5: the relayed status is the backend's; under each name the relayed values
\* are the CORS middleware's value, if any, then the backend's values in order;
\* the relayed body is a prefix of the backend's, and all of it once io.Copy
\* has ended without an error
C5_RelayAfterCors ==
    \A s \in Slots :
        LET r == rq[s] IN
        Relayed(r) =>
            /\ r.w.status = r.resp.status
            /\ DOMAIN r.w.hdr = DOMAIN CorsHeaders \cup DOMAIN r.resp.hdr
            /\ \A n \in DOMAIN r.w.hdr :
                  r.w.hdr[n] = ValuesOf(CorsHeaders, n) \o ValuesOf(r.resp.hdr, n)
            /\ r.w.body = SubSeq(r.resp.body, 1, r.copied)
            /\ (r.pc = "done" /\ ~r.copyFailed) => r.w.body = r.resp.body

\* a body longer than one buffer, a header the middleware also set, a repeated header
C5_Witness ==
    \E s \in Slots :
        /\ Relayed(rq[s])
        /\ rq[s].pc = "done" /\ ~rq[s].copyFailed
        /\ Len(rq[s].resp.body) > CopyBuf
        /\ "Access-Control-Allow-Origin" \in DOMAIN rq[s].resp.hdr
        /\ Len(ValuesOf(rq[s].resp.hdr, "Set-Cookie")) = 2

\* C11: a single read or download with a numeric subject in its context and an
\* {id} that is no UUID is answered 400 with the handler's text, and neither a
\* query nor an object fetch is made for it
MalformedId(r) == r.id \notin WellFormedIDs

C11_BadIdRejected ==
    \A s \in Slots :
        LET r == rq[s] IN
        (/\ r.handler \in SingleReads
         /\ r.entered /\ r.pc # "handler"
         /\ Subject(r).t = "num"
         /\ MalformedId(r)) =>
            /\ r.pc = "done"
            /\ r.w = HttpError(FreshWriter,
                               IF r.handler = "GetVideoAnalysesInfo"
                               THEN "Invalid job ID format" ELSE "Invalid video ID format",
                               StatusBadRequest)
            /\ r.queries = 0 /\ r.fetches = 0 /\ r.out = NoOut /\ ~r.job.found

C11_Witness ==
    \E s \in Slots :
        /\ rq[s].pc = "done"
        /\ rq[s].handler = "GetVideoAnalysesInfo"
        /\ rq[s].id = "not-a-uuid"
        /\ Subject(rq[s]) = NumClaim(1)
        /\ rq[s].w.text = "Invalid job ID format"
        /\ rq[s].queries = 0

\* C12: every auth-required route of the specification's table is registered: a
\* request on its method and path reaches the handler the table names, behind
\* AuthMiddleware; GET /auth/video/analyze and GET /auth/video/analyze/{id} reach
\* the analysis collection read and single read as the transcode paths reach theirs
RequiredRoutes ==
    << Route("GET", <<"auth", "profile">>, "GetProfile", TRUE),
       Route("PUT", <<"auth", "profile">>, "UpdateProfile", TRUE),
       Route("POST", <<"auth", "video", "analyze">>, "AnalyzeVideoProxy", TRUE),
       Route("GET", <<"auth", "video", "analyze">>, "GetVideoAnalyses", TRUE),
       Route("GET", <<"auth", "video", "analyze", IdVar>>, "GetVideoAnalysesInfo", TRUE),
       Route("POST", <<"auth", "video", "transcode">>, "TranscodeVideoProxy", TRUE),
       Route("GET", <<"auth", "video", "transcode">>, "GetVideoTranscodes", TRUE),
       Route("GET", <<"auth", "video", "transcode", IdVar>>, "GetVideoTranscodeInfo", TRUE),
       Route("GET", <<"auth", "video", "transcode", IdVar, "download">>,
             "DownloadVideoFromS3", TRUE) >>

C12_RoutesRegistered ==
    \A s \in Slots :
        LET r == rq[s] IN
        \A i \in DOMAIN RequiredRoutes :
            (/\ r.method = RequiredRoutes[i].method
             /\ PathMatches(RequiredRoutes[i].path, r.path)) =>
                /\ r.handler = RequiredRoutes[i].handler
                /\ r.guarded

\* the caller's own job, read by the download handler
OwnJobRead(r) ==
    /\ r.handler = "DownloadVideoFromS3"
    /\ r.entered /\ r.pc # "handler"
    /\ Subject(r).t = "num"
    /\ r.job.found
    /\ r.job.row.created_by = Owner(Subject(r).v)
StoredLocator(r) == r.job.row.output_url

\* C13: a download of the caller's job whose output locator is nil or empty is
\* answered 404 "Video is not ready for download" and the object store is not asked
C13_NotReady ==
    \A s \in Slots :
        LET r == rq[s] IN
        (OwnJobRead(r) /\ StoredLocator(r) \in {NullURL, URL(<<>>)}) =>
            /\ r.pc = "done"
            /\ r.w = HttpError(FreshWriter, "Video is not ready for download", StatusNotFound)
            /\ r.fetches = 0 /\ r.out = NoOut

C13_Witness ==
    \E s \in Slots :
        /\ OwnJobRead(rq[s])
        /\ StoredLocator(rq[s]) = URL(<<>>)
        /\ rq[s].w.status = StatusNotFound

\* the locator's characters once one leading "s3://" is removed
Remainder(u) == IF u # <<>> /\ Head(u) = Scheme THEN Spell(Tail(u)) ELSE Spell(u)
HasSeparator(x) == \E i \in 1..Len(x) : x[i] = Slash
Malformed(r) ==
    /\ OwnJobRead(r)
    /\ StoredLocator(r) \notin {NullURL, URL(<<>>)}
    /\ ~HasSeparator(Remainder(StoredLocator(r).v))

\* C14 as claimed: a download of the caller's job whose stored locator has no
\* bucket/key separator is answered with a bad-request (400) response and the
\* object store is not asked
C14_MalformedIsBadRequest ==
    \A s \in Slots :
        LET r == rq[s] IN
        Malformed(r) =>
            /\ r.pc = "done"
            /\ r.w.status = StatusBadRequest
            /\ r.fetches = 0 /\ r.out = NoOut

\* C14 as amended: such a download is answered with an internal-error (500)
\* response, "Invalid video storage location" unless the storage session could
\* not be set up, and the object store is not asked
C14_MalformedIsInternalError ==
    \A s \in Slots :
        LET r == rq[s] IN
        Malformed(r) =>
            /\ r.pc = "done"
            /\ r.w \in {HttpError(FreshWriter, "Invalid video storage location",
                                  StatusInternalServerError),
                        HttpError(FreshWriter, "Error connecting to storage service",
                                  StatusInternalServerError)}
            /\ r.fetches = 0 /\ r.out = NoOut

C14_Witness ==
    \E s \in Slots :
        /\ Malformed(rq[s])
        /\ StoredLocator(rq[s]) = URL(<<Scheme, Name("bucket-a"), Ext("mkv")>>)
        /\ rq[s].w.text = "Invalid video storage location"

\* C15: the locator parses exactly when its remainder has a "/"; the bucket is
\* the text before the first "/" and the key all the text after it
Parsed(r) == r.out.t = "getobject"
C15_LocatorParsing ==
    \A s \in Slots :
        LET r == rq[s]
            x == Remainder(StoredLocator(r).v)
        IN  (OwnJobRead(r) /\ StoredLocator(r) \notin {NullURL, URL(<<>>)}) =>
               /\ Parsed(r) =>
                     /\ HasSeparator(x)
                     /\ ~HasSeparator(r.out.bucket)
                     /\ r.out.bucket \o <<Slash>> \o r.out.key = x
               /\ ~HasSeparator(x) => ~Parsed(r)
               /\ HasSeparator(x) => r.w.text # "Invalid video storage location"
               /\ (~Parsed(r) /\ HasSeparator(x)) =>
                     r.w.text = "Error connecting to storage service"
               /\ (Parsed(r) /\ StoredLocator(r).v = ExampleLocator) =>
                     /\ r.out.bucket = <<Name("bucket-a")>>
                     /\ r.out.key = <<Name("path"), Slash, Name("to"), Slash,
                                      Name("file"), Ext("mp4")>>

\* a key that keeps its own separators
C15_Witness ==
    \E s \in Slots :
        /\ OwnJobRead(rq[s])
        /\ Parsed(rq[s])
        /\ StoredLocator(rq[s]) = URL(ExampleLocator)
        /\ rq[s].fetches = 1

\* the download's headers, once the object store has answered
Served(r) == OwnJobRead(r) /\ r.resp # NoResp
ServedFilename(r) == r.w.hdr["Content-Disposition"][1].filename
ServedType(r) == r.w.hdr["Content-Type"][1]
OnlySeparators(key) == \A i \in 1..Len(key) : key[i] = Slash
Synthesized(r) == <<Name("video_"), Name(r.id), Ext("mp4")>>

\* the key's last segment that is not empty
LastSegment(key) ==
    LET ends == {i \in 1..Len(key) : key[i] # Slash}
        e == CHOOSE i \in ends : \A j \in ends : i >= j
        starts == {i \in 1..e : \A j \in i..e : key[j] # Slash}
        b == CHOOSE i \in starts : \A j \in starts : i <= j
    IN  SubSeq(key, b, e)

\* the fixed table, looked up without regard to case
TypeTable(e) ==
    IF e \in {"mp4", "MP4"} THEN "video/mp4"
    ELSE IF e \in {"mkv", "Mkv"} THEN "video/x-matroska"
    ELSE "application/octet-stream"
TypeOf(filename) ==
    IF filename # <<>> /\ filename[Len(filename)].k = "ext"
    THEN TypeTable(filename[Len(filename)].s)
    ELSE "application/octet-stream"

\* C16: the download's filename is the key's final segment, or video_<id>.mp4
\* when the key is empty or consists only of separators; the Content-Type is the
\* table's entry for the filename's extension, whatever its case, and
\* application/octet-stream for any other extension
C16_FilenameAndType ==
    \A s \in Slots :
        LET r == rq[s] IN
        Served(r) =>
            /\ OnlySeparators(r.out.key) => ServedFilename(r) = Synthesized(r)
            /\ (~OnlySeparators(r.out.key) /\ LastSegment(r.out.key) # <<Ext("")>>) =>
                   ServedFilename(r) = LastSegment(r.out.key)
            /\ ServedType(r) = Text(TypeOf(ServedFilename(r)))

\* C17: a collection read returns exactly the stored rows whose owner is the
\* caller, each once, the most recently created first; a caller owning no row
\* gets a success with the empty sequence
Listed(r) == r.w.payload.rows
StampOf(r, item) ==
    IF r.handler = "GetVideoAnalyses" THEN item.row.created_at ELSE item.row.inserted_at
OwnedIds(r) ==
    LET table == IF r.handler = "GetVideoAnalyses" THEN vjobs ELSE tjobs
    IN  {i \in DOMAIN table : table[i].created_by = Owner(Subject(r).v)}

C17_CollectionRead ==
    \A s \in Slots :
        LET r == rq[s]
            table == IF r.handler = "GetVideoAnalyses" THEN vjobs ELSE tjobs
        IN  (/\ r.handler \in CollectionReads
             /\ r.entered /\ r.pc # "handler"
             /\ Subject(r).t = "num"
             /\ r.w.status # StatusInternalServerError) =>
                /\ r.pc = "done"
                /\ r.w.status = StatusOK
                /\ r.w.payload.t = "list"
                /\ {Listed(r)[i].id : i \in DOMAIN Listed(r)} = OwnedIds(r)
                /\ Len(Listed(r)) = Cardinality(OwnedIds(r))
                /\ \A i \in DOMAIN Listed(r) : Listed(r)[i].row = table[Listed(r)[i].id]
                /\ \A i, j \in DOMAIN Listed(r) :
                      i < j => StampOf(r, Listed(r)[i]) >= StampOf(r, Listed(r)[j])
                /\ OwnedIds(r) = {} => Listed(r) = <<>>

\* two rows of the caller with different creation times, beside a row of another
C17_Witness ==
    \E s \in Slots :
        /\ rq[s].pc = "done"
        /\ rq[s].handler = "GetVideoTranscodes"
        /\ rq[s].w.status = StatusOK
        /\ Len(Listed(rq[s])) = 2
        /\ StampOf(rq[s], Listed(rq[s])[1]) > StampOf(rq[s], Listed(rq[s])[2])
        /\ Cardinality(DOMAIN tjobs) = 3

\* C18: whatever the interleaving, a request's context, the subject injected into
\* its forwarded body and the owner its queries are scoped by are those of the
\* token the request itself presented; and a request in flight can always take
\* its next step, whatever the other requests are doing
OwnIdentity(r) ==
    /\ r.entered =>
          r.ctx = [email |-> PresentedToken(r).email, user_id |-> PresentedToken(r).user_id]
    /\ Forwarded(r) =>
          \A i \in At(r.out.body.members, RouteKey(r)) :
              r.out.body.members[i].v = JInt(Subject(r).v)
    /\ r.job.found => r.job.row.created_by = Owner(Subject(r).v)
    /\ r.w.payload.t = "row" => r.w.payload.row.created_by = Owner(Subject(r).v)
    /\ r.w.payload.t = "list" =>
          \A i \in DOMAIN r.w.payload.rows :
              r.w.payload.rows[i].row.created_by = Owner(Subject(r).v)

C18_RequestScopedIdentity ==
    \A s \in Slots :
        /\ OwnIdentity(rq[s])
        /\ rq[s].pc # "idle" => ENABLED ServeConc(s)

\* two callers in flight at once, each with its own subject forwarded
C18_Witness ==
    \E s, t \in Slots :
        /\ s # t
        /\ Forwarded(rq[s]) /\ rq[s].pc = "dispatch" /\ Subject(rq[s]) = NumClaim(1)
        /\ Forwarded(rq[t]) /\ rq[t].pc = "copy" /\ Subject(rq[t]) = NumClaim(2)

\* C19: no step of the gateway changes the transcoding-job or video-analysis
\* table, and the users table changes only in a step of Register or UpdateProfile
UsersWriters == {"Register", "UpdateProfile"}
C19_JobTablesReadOnly ==
    [][/\ tjobs' = tjobs
       /\ vjobs' = vjobs
       /\ users' # users =>
             \E s \in Slots : rq[s].handler \in UsersWriters /\ rq'[s] # rq[s]]_vars

\* a user has registered, a profile has changed, and a job has been read since
C19_Witness ==
    /\ users.seq > Users0.seq
    /\ \E i \in DOMAIN Users0.rows : users.rows[i] # Users0.rows[i]
    /\ \E s \in Slots : rq[s].pc = "done" /\ rq[s].w.payload.t = "row"
    /\ tjobs = TJobs0 /\ vjobs = VJobs0

\* C20: once the status is committed it never changes, and a copy that fails
\* ends the handler with that status, no error text, and the bytes copied so far
Committed(r) == r.w.status # 0 /\ r.pc \in {"copy", "stream"}
CopyAbandoned(r) ==
    /\ r.pc = "done"
    /\ r.w.status = (IF r.handler \in ProxyHandlers THEN r.resp.status ELSE StatusOK)
    /\ r.w.text = "" /\ r.w.payload = NoPayload
    /\ r.copied < Len(r.resp.body)
    /\ r.w.body = SubSeq(r.resp.body, 1, r.copied)

C20_CopyFailureOnlyLogged ==
    /\ [](\A s \in Slots : rq[s].copyFailed => CopyAbandoned(rq[s]))
    /\ [][\A s \in Slots :
             Committed(rq[s]) =>
                /\ rq'[s].w.status = rq[s].w.status
                /\ rq'[s].w.text = rq[s].w.text
                /\ rq'[s].w.hdr = rq[s].w.hdr
                /\ rq'[s].pc \in {rq[s].pc, "done"}]_vars

\* the relay and the download each broken off after the first round of the copy
C20_Witness ==
    \E s \in Slots :
        /\ rq[s].copyFailed
        /\ rq[s].copied = CopyBuf
        /\ rq[s].handler \in {"TranscodeVideoProxy", "DownloadVideoFromS3"}
        /\ rq[s].w.status = StatusOK

\* the store was asked and returned no object
StoreFailed(r) ==
    r.handler = "DownloadVideoFromS3" /\ r.fetches > 0 /\ r.resp = NoResp

\* C21: when the object store fails, the download ends with 500 "Error
\* retrieving video file": no Content-Disposition, no Content-Length, no
\* Content-Type derived from the key, no object bytes; and no request asks the
\* store more than once
C21_StoreFailure ==
    \A s \in Slots :
        LET r == rq[s] IN
        /\ r.fetches <= 1
        /\ StoreFailed(r) =>
              /\ r.pc = "done"
              /\ r.w = HttpError(FreshWriter, "Error retrieving video file",
                                 StatusInternalServerError)
              /\ "Content-Disposition" \notin DOMAIN r.w.hdr
              /\ "Content-Length" \notin DOMAIN r.w.hdr
              /\ r.w.hdr["Content-Type"] = <<Text("text/plain; charset=utf-8")>>
              /\ r.w.body = <<>> /\ r.copied = 0

C21_Witness ==
    \E s \in Slots :
        /\ StoreFailed(rq[s])
        /\ rq[s].out.t = "getobject"
        /\ rq[s].out.key = <<Name("path"), Slash, Name("to"), Slash, Name("file"), Ext("mp4")>>
        /\ rq[s].w.status = StatusInternalServerError

\* a finished Create or Save of a TranscodingJob, and the status it was given
JobWrite(r) ==
    r.pc = "done" /\ r.handler \in {"TranscodingJob.Create", "TranscodingJob.Save"}
GivenStatus(r) == r.body.row.status
FiveStatuses == {"pending", "processing", "completed", "failed", "cancelled"}

Registering(r) == r.handler = "Register" /\ r.pc # "idle"
RegEmail(r) == DecodeFields(r.body).email
Registered(r) ==
    /\ Registering(r) /\ r.pc = "done"
    /\ r.w.status = StatusCreated
    /\ r.w.payload.t = "auth"
EmailsUnique ==
    \A i, j \in DOMAIN users.rows : users.rows[i].email = users.rows[j].email => i = j
AnswersRegister(s) == Registering(rq[s]) /\ rq[s].pc # "done" /\ rq'[s].pc = "done"

\* C23: under every interleaving of Register requests no two user records share
\* an email and no two requests hold a 201 for one email; the step that answers
\* 201 is the step that inserts the one record with the request's email, and a
\* step that answers anything else is an error response and inserts nothing
C23_RegisterRace ==
    /\ [](/\ EmailsUnique
          /\ \A s, t \in Slots :
                (Registered(rq[s]) /\ Registered(rq[t])
                    /\ RegEmail(rq[s]) = RegEmail(rq[t])) => s = t)
    /\ [][\A s \in Slots :
            AnswersRegister(s) =>
              IF rq'[s].w.status = StatusCreated
              THEN /\ UserByEmail(RegEmail(rq[s])) = {}
                   /\ DOMAIN users'.rows = DOMAIN users.rows \cup {users.seq + 1}
                   /\ users'.rows[users.seq + 1].email = RegEmail(rq[s])
                   /\ rq'[s].w.payload.token = generateJWT(users.seq + 1, RegEmail(rq[s]), now)
                   /\ \A i \in DOMAIN users.rows : users'.rows[i] = users.rows[i]
              ELSE /\ rq'[s].w.status >= StatusBadRequest
                   /\ rq'[s].w.payload = NoPayload
                   /\ users' = users]_vars

C23_Witness ==
    \E s, t \in Slots :
        /\ Registered(rq[s]) /\ RegEmail(rq[s]) = "c@x"
        /\ Registering(rq[t]) /\ RegEmail(rq[t]) = "c@x"
        /\ rq[t].pc = "done"
        /\ rq[t].w.text = "Failed to create user"
        /\ Cardinality(UserByEmail("c@x")) = 1

\* a response of Register or Login that carries a token, and a protected request
\* that presents a token
Issued(r) ==
    r.pc = "done" /\ r.handler \in {"Register", "Login"} /\ r.w.payload.t = "auth"
Presents(r) == r.guarded /\ PastAuth(r) /\ TwoTokenBearer(AuthValue(r))
Issues(s) == ~Issued(rq[s]) /\ Issued(rq'[s])

\* C24: a token in a response of Register or Login verifies and names the stored
\* user of that response, with the email of that moment and an expiry 24 hours
\* on; presented as Bearer before that expiry it is accepted with exactly these
\* claims as the request's identity, and no handler fails to read the subject;
\* presented at or after the expiry it is answered 401 "Invalid token"
C24_IssuedTokenAccepted ==
    /\ [](\A s \in Slots :
            LET r == rq[s]
                tok == PresentedToken(r)
            IN  /\ Issued(r) =>
                      /\ r.w.payload.token.form = "jwt"
                      /\ r.w.payload.token.sig = "ok"
                      /\ r.w.payload.token.user_id = NumClaim(r.w.payload.user.id)
                      /\ r.w.payload.token.email = StrClaim(r.w.payload.user.email)
                      /\ r.w.payload.token.exp.t = "num"
                      /\ r.w.payload.user.id \in DOMAIN users.rows
                /\ Presents(r) =>
                      IF r.authAt < tok.exp.v
                      THEN /\ r.entered
                           /\ r.ctx = [email |-> tok.email, user_id |-> tok.user_id]
                           /\ UserContextOk(r.ctx)
                           /\ r.w.status # StatusUnauthorized
                           /\ r.w.text # "Invalid user context"
                           /\ \A t \in Slots :
                                 (Issued(rq[t]) /\ rq[t].w.payload.token = tok) =>
                                    /\ Uint(r.ctx.user_id) = rq[t].w.payload.user.id
                                    /\ r.ctx.email.v = rq[t].w.payload.user.email
                      ELSE /\ ~r.entered
                           /\ r.pc = "done"
                           /\ r.w = HttpError(FreshWriter, "Invalid token",
                                              StatusUnauthorized))
    /\ [][\A s \in Slots :
            Issues(s) =>
               LET p == rq'[s].w.payload IN
               /\ p.token.exp.v = now + TokenTTL
               /\ users'.rows[p.user.id].email = p.user.email]_vars

C24_Witness ==
    \E s, t \in Slots :
        /\ Issued(rq[t]) /\ rq[t].handler = "Register"
        /\ Presents(rq[s])
        /\ PresentedToken(rq[s]) = rq[t].w.payload.token
        /\ rq[s].handler = "GetProfile" /\ rq[s].pc = "done"
        /\ rq[s].w.status = StatusOK
        /\ rq[s].authAt > 0 /\ rq[s].authAt < PresentedToken(rq[s]).exp.v

\* a Login request that was answered, what it carried, and the stored user of
\* its email whose hash its password matches
LoggedIn(r) == r.handler = "Login" /\ r.pc = "done"
Carried(r) == DecodeFields(r.body)
Matching(r) ==
    {i \in UserByEmail(Carried(r).email) :
        users.rows[i].password_hash = BcryptHash(Carried(r).password)}
WellFormedLogin(r) ==
    ~Carried(r).err /\ Carried(r).email # "" /\ Carried(r).password.s # ""
DatabaseError(r) ==
    r.w = HttpError(FreshWriter, "Internal server error", StatusInternalServerError)

\* C25: a Login carrying an email and a password, whose email has no user
\* record or whose password does not match the stored hash, is answered 401
\* "Invalid credentials" in both cases, byte for byte the same response; a
\* token is answered only when a stored user has the email and the password
\* matches its hash, and it is that user's token
C25_LoginIndistinguishable ==
    \A s \in Slots :
        LET r == rq[s] IN
        LoggedIn(r) =>
            /\ (WellFormedLogin(r) /\ Matching(r) = {} /\ ~DatabaseError(r)) =>
                   r.w = HttpError(FreshWriter, "Invalid credentials", StatusUnauthorized)
            /\ r.w.payload # NoPayload =>
                   /\ WellFormedLogin(r)
                   /\ r.w.payload.t = "auth"
                   /\ r.w.payload.user.id \in Matching(r)
                   /\ r.w.payload.token.user_id = NumClaim(r.w.payload.user.id)
            /\ (~WellFormedLogin(r) \/ Matching(r) = {}) => r.w.payload = NoPayload

C25_Witness ==
    \E s \in Slots :
        /\ LoggedIn(rq[s])
        /\ Carried(rq[s]).email = "a@x"
        /\ UserByEmail("a@x") # {} /\ Matching(rq[s]) = {}
        /\ Carried(rq[s]).password.s = "secret2"
        /\ rq[s].w.text = "Invalid credentials"

====
